---- MODULE Spec2Model ----
(***************************************************************************)
(* Verification model of the colorspace / hue-saturation pipeline of       *)
(* imgaug/augmenters/color.py.                                             *)
(*                                                                         *)
(* The module holds several specifications over one set of variables:      *)
(*   Spec       the colorspace converter on one image (change_colorspace_) *)
(*   SpecBatch  the batch converter (change_colorspaces_)                  *)
(* Each specification drives its own group of variables and leaves the     *)
(* other groups at their idle value.                                       *)
(***************************************************************************)
EXTENDS Integers, Sequences, FiniteSets, TLC

(***************************************************************************)
(* Bounds of the model.                                                    *)
(***************************************************************************)
MaxBatch == 2
MaxCalls == 2
MaxHueBatch == 2
MaxChildren == 2
MaxAugCalls == 2
RngModulus == 5
MaxPixels == 3
MaxSide == 3
MaxInstances == 2
MaxFiles == 2
MaxDetections == 2

(***************************************************************************)
(* Colorspace tags, color.py:51-64.                                        *)
(***************************************************************************)
CSPACE_RGB == "RGB"
CSPACE_BGR == "BGR"
CSPACE_GRAY == "GRAY"
CSPACE_YCrCb == "YCrCb"
CSPACE_HSV == "HSV"
CSPACE_HLS == "HLS"
CSPACE_Lab == "Lab"
CSPACE_Luv == "Luv"
CSPACE_YUV == "YUV"
CSPACE_CIE == "CIE"
CSPACE_ALL ==
  {CSPACE_RGB, CSPACE_BGR, CSPACE_GRAY, CSPACE_YCrCb,
   CSPACE_HSV, CSPACE_HLS, CSPACE_Lab, CSPACE_Luv,
   CSPACE_YUV, CSPACE_CIE}

\* A tag outside the enumerated set, used as an invalid argument.
BadTag == "XYZ"
Tags == CSPACE_ALL \cup {BadTag}

None == "None"

(***************************************************************************)
(* The table of primitive conversions, color.py:77-128.  Only the keys     *)
(* matter: the value is the cv2 conversion code of the pair.               *)
(***************************************************************************)
CSPACE_OPENCV_CONV_VARS_without_RGB2GRAY ==
  {<<CSPACE_RGB, CSPACE_BGR>>, <<CSPACE_RGB, CSPACE_YCrCb>>,
   <<CSPACE_RGB, CSPACE_HSV>>, <<CSPACE_RGB, CSPACE_HLS>>,
   <<CSPACE_RGB, CSPACE_Lab>>, <<CSPACE_RGB, CSPACE_Luv>>,
   <<CSPACE_RGB, CSPACE_YUV>>, <<CSPACE_RGB, CSPACE_CIE>>,
   <<CSPACE_BGR, CSPACE_RGB>>, <<CSPACE_BGR, CSPACE_GRAY>>,
   <<CSPACE_BGR, CSPACE_YCrCb>>, <<CSPACE_BGR, CSPACE_HSV>>,
   <<CSPACE_BGR, CSPACE_HLS>>, <<CSPACE_BGR, CSPACE_Lab>>,
   <<CSPACE_BGR, CSPACE_Luv>>, <<CSPACE_BGR, CSPACE_YUV>>,
   <<CSPACE_BGR, CSPACE_CIE>>,
   <<CSPACE_YCrCb, CSPACE_RGB>>, <<CSPACE_YCrCb, CSPACE_BGR>>,
   <<CSPACE_HSV, CSPACE_RGB>>, <<CSPACE_HSV, CSPACE_BGR>>,
   <<CSPACE_HLS, CSPACE_RGB>>, <<CSPACE_HLS, CSPACE_BGR>>,
   <<CSPACE_Lab, CSPACE_RGB>>, <<CSPACE_Lab, CSPACE_BGR>>,
   <<CSPACE_Luv, CSPACE_RGB>>, <<CSPACE_Luv, CSPACE_BGR>>,
   <<CSPACE_YUV, CSPACE_RGB>>, <<CSPACE_YUV, CSPACE_BGR>>,
   <<CSPACE_CIE, CSPACE_RGB>>, <<CSPACE_CIE, CSPACE_BGR>>}

CSPACE_OPENCV_CONV_VARS ==
  {\* RGB
   <<CSPACE_RGB, CSPACE_BGR>>, <<CSPACE_RGB, CSPACE_GRAY>>,
   <<CSPACE_RGB, CSPACE_YCrCb>>, <<CSPACE_RGB, CSPACE_HSV>>,
   <<CSPACE_RGB, CSPACE_HLS>>, <<CSPACE_RGB, CSPACE_Lab>>,
   <<CSPACE_RGB, CSPACE_Luv>>, <<CSPACE_RGB, CSPACE_YUV>>,
   <<CSPACE_RGB, CSPACE_CIE>>,
   \* BGR
   <<CSPACE_BGR, CSPACE_RGB>>, <<CSPACE_BGR, CSPACE_GRAY>>,
   <<CSPACE_BGR, CSPACE_YCrCb>>, <<CSPACE_BGR, CSPACE_HSV>>,
   <<CSPACE_BGR, CSPACE_HLS>>, <<CSPACE_BGR, CSPACE_Lab>>,
   <<CSPACE_BGR, CSPACE_Luv>>, <<CSPACE_BGR, CSPACE_YUV>>,
   <<CSPACE_BGR, CSPACE_CIE>>,
   \* GRAY: none
   \* YCrCb
   <<CSPACE_YCrCb, CSPACE_RGB>>, <<CSPACE_YCrCb, CSPACE_BGR>>,
   \* HSV
   <<CSPACE_HSV, CSPACE_RGB>>, <<CSPACE_HSV, CSPACE_BGR>>,
   \* HLS
   <<CSPACE_HLS, CSPACE_RGB>>, <<CSPACE_HLS, CSPACE_BGR>>,
   \* Lab
   <<CSPACE_Lab, CSPACE_RGB>>, <<CSPACE_Lab, CSPACE_BGR>>,
   \* Luv
   <<CSPACE_Luv, CSPACE_RGB>>, <<CSPACE_Luv, CSPACE_BGR>>,
   \* YUV
   <<CSPACE_YUV, CSPACE_RGB>>, <<CSPACE_YUV, CSPACE_BGR>>,
   \* CIE
   <<CSPACE_CIE, CSPACE_RGB>>, <<CSPACE_CIE, CSPACE_BGR>>}

\* The pairs converted in place, color.py:133-176: every key maps to True.
CHANGE_COLORSPACE_INPLACE == [p \in CSPACE_OPENCV_CONV_VARS |-> TRUE]

(***************************************************************************)
(* Images.  An image is an array of a given dimensionality, channel count  *)
(* and dtype; its pixel content is the content of an original image        *)
(* (base) to which a sequence of primitive conversions (hist) was applied. *)
(* channels is 0 when the array has no third axis.  tiled says that the    *)
(* three channels are copies of one plane.                                 *)
(***************************************************************************)
DTypes == {"uint8", "float32"}

MkImage(ndim, channels, dtype, contiguous, base) ==
  [ndim |-> ndim, channels |-> channels, dtype |-> dtype,
   contiguous |-> contiguous, base |-> base, hist |-> <<>>, tiled |-> FALSE]

\* The arrays a caller can hand in for slot b of a batch.
InputImages(b) ==
  {MkImage(3, 3, "uint8", c, b) : c \in BOOLEAN}
    \cup {MkImage(2, 0, "uint8", TRUE, b), MkImage(3, 1, "uint8", TRUE, b),
          MkImage(3, 4, "uint8", TRUE, b), MkImage(3, 3, "float32", TRUE, b)}

NoImage == MkImage(0, 0, "none", FALSE, 0)

\* Pixel content of an array (what a reader of its values sees).
Pixels(img) ==
  [ndim |-> img.ndim, channels |-> img.channels, dtype |-> img.dtype,
   base |-> img.base, hist |-> img.hist, tiled |-> img.tiled]

(***************************************************************************)
(* cv2.cvtColor(src, code, dst=dst).  The conversion is a function of the  *)
(* source pixels and the code; RGB<->BGR is a channel swap, so a swap      *)
(* followed by the opposite swap gives the original pixels back.  A        *)
(* conversion to GRAY yields a 2-dimensional array.  The result is written *)
(* into dst when dst is given and has the shape of the result.             *)
(***************************************************************************)
IsSwap(code) == code \in {<<CSPACE_RGB, CSPACE_BGR>>, <<CSPACE_BGR, CSPACE_RGB>>}

PushCode(hist, code) ==
  IF IsSwap(code) /\ Len(hist) > 0 /\ hist[Len(hist)] = <<code[2], code[1]>>
  THEN SubSeq(hist, 1, Len(hist) - 1)
  ELSE Append(hist, code)

cvtColor(src, code, dst) ==
  LET gray == code[2] = CSPACE_GRAY
      out == [src EXCEPT !.hist = PushCode(src.hist, code),
                         !.ndim = IF gray THEN 2 ELSE 3,
                         !.channels = IF gray THEN 0 ELSE 3,
                         !.contiguous = TRUE,
                         !.tiled = FALSE]
  IN  [out |-> out, inplace |-> dst /\ ~gray]

\* iadt.gate_dtypes(image, allowed=["uint8"], ...): TRUE when the dtype passes.
gate_dtypes(dtype, allowed) == dtype \in allowed

\* _get_dst, color.py:241-249: TRUE when the caller's array is used as dst.
get_dst(image, from_to_cspace) ==
  CHANGE_COLORSPACE_INPLACE[from_to_cspace] /\ image.contiguous

(***************************************************************************)
(* change_colorspace_(image, to_colorspace, from_colorspace),              *)
(* color.py:179-309.  The result records                                   *)
(*   err      "none" or the exception raised                               *)
(*   ret      the returned array                                           *)
(*   src      the caller's array as it is after the call                   *)
(*   aliased  whether ret is the caller's array itself                     *)
(*   calls    the primitive conversions made, in order                     *)
(***************************************************************************)
Failure(e, image) ==
  [err |-> e, ret |-> NoImage, src |-> image, aliased |-> FALSE,
   calls |-> <<>>]

\* TileGray without the tiling: the 2-dimensional result is returned as is.
TileGray_not_tiled(r) == r

\* color.py:304-307: a 2-dimensional result is tiled to three channels.
TileGray(r) ==
  IF r.ret.ndim = 2
  THEN [r EXCEPT !.ret = [r.ret EXCEPT !.ndim = 3, !.channels = 3,
                                       !.tiled = TRUE, !.contiguous = TRUE],
                 !.aliased = FALSE]
  ELSE r

\* color.py:288-291
ConvertDirect(image, from_to_direct) ==
  LET dst == get_dst(image, from_to_direct)
      c == cvtColor(image, from_to_direct, dst)
  IN  [err |-> "none", ret |-> c.out,
       src |-> IF c.inplace THEN c.out ELSE image,
       aliased |-> c.inplace, calls |-> <<from_to_direct>>]

\* color.py:292-300
ConvertIndirect(image, from_to_indirect) ==
  IF \E k \in 1..2 : from_to_indirect[k] \notin CSPACE_OPENCV_CONV_VARS
  THEN Failure("KeyError", image)
  ELSE
    LET dst1 == get_dst(image, from_to_indirect[1])
        dst2 == get_dst(image, from_to_indirect[2])
        c1 == cvtColor(image, from_to_indirect[1], dst1)
        src1 == IF c1.inplace THEN c1.out ELSE image
        \* the second conversion reads the result of the first; its dst is
        \* the caller's array
        c2 == cvtColor(c1.out, from_to_indirect[2], dst2)
    IN  [err |-> "none", ret |-> c2.out,
         src |-> IF c2.inplace THEN c2.out ELSE src1,
         aliased |-> c2.inplace,
         calls |-> <<from_to_indirect[1], from_to_indirect[2]>>]

change_colorspace_validated(image, to_colorspace, from_colorspace) ==
  IF from_colorspace = to_colorspace
  THEN [err |-> "none", ret |-> image, src |-> image, aliased |-> TRUE,
        calls |-> <<>>]
  ELSE
    LET from_to_direct == <<from_colorspace, to_colorspace>>
        from_to_indirect == << <<from_colorspace, CSPACE_RGB>>,
                               <<CSPACE_RGB, to_colorspace>> >>
    IN  TileGray(IF from_to_direct \in CSPACE_OPENCV_CONV_VARS
                 THEN ConvertDirect(image, from_to_direct)
                 ELSE ConvertIndirect(image, from_to_indirect))

\* change_colorspace_ without the assertion on the number of channels.
change_colorspace_no_channel_check(image, to_colorspace, from_colorspace) ==
  IF ~gate_dtypes(image.dtype, {"uint8"})
    THEN Failure("ValueError", image)
  ELSE IF to_colorspace \notin CSPACE_ALL \/ from_colorspace \notin CSPACE_ALL
    THEN Failure("AssertionError:colorspace", image)
  ELSE IF from_colorspace = CSPACE_GRAY
    THEN Failure("AssertionError:gray", image)
  ELSE IF image.ndim # 3
    THEN Failure("AssertionError:ndim", image)
  ELSE change_colorspace_validated(image, to_colorspace, from_colorspace)

change_colorspace_(image, to_colorspace, from_colorspace) ==
  IF ~gate_dtypes(image.dtype, {"uint8"})
    THEN Failure("ValueError", image)
  ELSE IF to_colorspace \notin CSPACE_ALL \/ from_colorspace \notin CSPACE_ALL
    THEN Failure("AssertionError:colorspace", image)
  ELSE IF from_colorspace = CSPACE_GRAY
    THEN Failure("AssertionError:gray", image)
  ELSE IF image.ndim # 3
    THEN Failure("AssertionError:ndim", image)
  ELSE IF image.channels # 3
    THEN Failure("AssertionError:channels", image)
  ELSE change_colorspace_validated(image, to_colorspace, from_colorspace)

(***************************************************************************)
(* change_colorspaces_(images, to_colorspaces, from_colorspaces),          *)
(* color.py:312-392.  An argument is a single string, a list of strings or *)
(* something else.                                                         *)
(***************************************************************************)
StrArg(s) == [kind |-> "str", s |-> s, l |-> <<>>]
ListArg(l) == [kind |-> "list", s |-> "", l |-> l]
OtherArg == [kind |-> "other", s |-> "", l |-> <<>>]

\* _validate, color.py:373-384
validate(arg, n) ==
  IF arg.kind = "list"
  THEN IF Len(arg.l) = n THEN [ok |-> TRUE, l |-> arg.l]
       ELSE [ok |-> FALSE, l |-> <<>>]
  ELSE IF arg.kind = "str" THEN [ok |-> TRUE, l |-> [i \in 1..n |-> arg.s]]
       ELSE [ok |-> FALSE, l |-> <<>>]

\* The loop with the two colorspace arguments passed in the wrong order.
RECURSIVE ConvertLoop_swapped_args(_, _, _, _, _)
ConvertLoop_swapped_args(imgs, tos, froms, i, calls) ==
  IF i > Len(imgs)
  THEN [images |-> imgs, err |-> "none", k |-> Len(imgs), calls |-> calls]
  ELSE LET r == change_colorspace_(imgs[i], froms[i], tos[i])
       IN  IF r.err # "none"
           THEN [images |-> imgs, err |-> r.err, k |-> i - 1, calls |-> calls]
           ELSE ConvertLoop_swapped_args([imgs EXCEPT ![i] = r.ret], tos,
                                         froms, i + 1, Append(calls, r.calls))

\* color.py:389-391: the loop over the batch, from slot i on.
RECURSIVE ConvertLoop(_, _, _, _, _)
ConvertLoop(imgs, tos, froms, i, calls) ==
  IF i > Len(imgs)
  THEN [images |-> imgs, err |-> "none", k |-> Len(imgs), calls |-> calls]
  ELSE LET r == change_colorspace_(imgs[i], tos[i], froms[i])
       IN  IF r.err # "none"
           THEN [images |-> imgs, err |-> r.err, k |-> i - 1, calls |-> calls]
           ELSE ConvertLoop([imgs EXCEPT ![i] = r.ret], tos, froms, i + 1,
                            Append(calls, r.calls))

change_colorspaces_(imgs, to_colorspaces, from_colorspaces) ==
  LET tos == validate(to_colorspaces, Len(imgs))
      froms == validate(from_colorspaces, Len(imgs))
  IN  IF ~tos.ok \/ ~froms.ok
      THEN [images |-> imgs, err |-> "AssertionError:arg", k |-> 0,
            calls |-> <<>>]
      ELSE ConvertLoop(imgs, tos.l, froms.l, 1, <<>>)

(***************************************************************************)
(* State of the converter specification.                                   *)
(*   images  the caller's batch (a list of arrays)                         *)
(*   pre     the batch as it was before the last call                      *)
(*   last    the last call: its arguments and its outcome                  *)
(*   ncalls  number of calls made                                          *)
(***************************************************************************)
VARIABLES images, pre, last, ncalls

(***************************************************************************)
(* State of the hue/saturation specification (SpecHue).                    *)
(*   phase    "new", "constructed" or "augmented"                          *)
(*   ctor     the last constructor call: its arguments and its outcome     *)
(*   aug      the augmenter that was constructed                           *)
(*   aug_in   the batch handed to the augmenter, in HSV representation     *)
(*   aug_out  the batch when the augment call ended, in HSV representation *)
(*   smp      the samples drawn by the augment call                        *)
(*   aug_err  "none" or the exception raised by the augment call           *)
(***************************************************************************)
VARIABLES phase, ctor, aug, aug_in, aug_out, smp, aug_err

(***************************************************************************)
(* State of the augmenter-tree specification (SpecAug).                    *)
(*   tree       the augmenter built by the caller                          *)
(*   clone      the result of tree.to_deterministic(), or NoNode           *)
(*   tree_was   tree as it was before to_deterministic()                   *)
(*   prev_call  the augment call before the last one                      *)
(*   last_call  the last augment call: target, hook, input and effects     *)
(*   naug       number of augment calls made                               *)
(***************************************************************************)
VARIABLES tree, clone, tree_was, prev_call, last_call, naug

\* The function-level specifications: which function was applied, to what,
\* and what it returned.
VARIABLES applied, fn_in, fn_out

convVars == <<images, pre, last, ncalls>>
hueVars == <<phase, ctor, aug, aug_in, aug_out, smp, aug_err>>
augVars == <<tree, clone, tree_was, prev_call, last_call, naug>>
fnVars == <<applied, fn_in, fn_out>>
vars == <<convVars, hueVars, augVars, fnVars>>

NoValue == [none |-> TRUE]
IdleFn == applied = "none" /\ fn_in = NoValue /\ fn_out = NoValue

\* The augmenter-tree group when no augmenter was built.
NoNode ==
  [kind |-> "none", deterministic |-> FALSE, random_state |-> 0,
   children |-> <<>>, to_colorspace |-> "", from_colorspace |-> ""]
NoAugCall ==
  [target |-> "none", method |-> "none", hooks |-> "None", input |-> <<>>,
   output |-> <<>>, nconv |-> 0, sampled |-> FALSE, child_calls |-> <<>>,
   err |-> "none"]

IdleAug ==
  /\ tree = NoNode
  /\ clone = NoNode
  /\ tree_was = NoNode
  /\ prev_call = NoAugCall
  /\ last_call = NoAugCall
  /\ naug = 0

\* The hue/saturation group before any constructor call.
NoArg == [kind |-> "None", vals |-> {}]
NoParam == [none |-> TRUE, support |-> {}]
NoAug ==
  [cls |-> "none", value |-> NoParam, value_hue |-> NoParam,
   value_saturation |-> NoParam, per_channel |-> 0, children |-> <<>>]
NoCtor ==
  [cls |-> "none", value |-> NoArg, value_hue |-> NoArg,
   value_saturation |-> NoArg, err |-> "none", result |-> NoAug]
NoSamples ==
  [per_channel |-> <<>>, raw_hue |-> <<>>, raw_saturation |-> <<>>,
   hue |-> <<>>, saturation |-> <<>>]

IdleHue ==
  /\ phase = "new"
  /\ ctor = NoCtor
  /\ aug = NoAug
  /\ aug_in = <<>>
  /\ aug_out = <<>>
  /\ smp = NoSamples
  /\ aug_err = "none"

NoCall ==
  [op |-> "none", idx |-> 0, to |-> OtherArg, from |-> OtherArg,
   err |-> "none", ret |-> <<>>, aliased |-> FALSE, calls |-> <<>>, k |-> 0]

IdleConv ==
  /\ images = <<>>
  /\ pre = <<>>
  /\ last = NoCall
  /\ ncalls = 0

InitConv ==
  /\ images \in {<<img>> : img \in InputImages(1)}
  /\ pre = images
  /\ last = NoCall
  /\ ncalls = 0
  /\ IdleHue
  /\ IdleAug
  /\ IdleFn

\* One call of change_colorspace_ on the array in slot i of the batch.
CallChangeColorspace(i, to_colorspace, from_colorspace) ==
  /\ ncalls < MaxCalls
  /\ i \in 1..Len(images)
  /\ LET r == change_colorspace_(images[i], to_colorspace, from_colorspace)
     IN  /\ images' = [images EXCEPT ![i] = r.src]
         /\ last' = [op |-> "change_colorspace_", idx |-> i,
                     to |-> StrArg(to_colorspace),
                     from |-> StrArg(from_colorspace),
                     err |-> r.err, ret |-> <<r.ret>>, aliased |-> r.aliased,
                     calls |-> <<r.calls>>, k |-> 0]
  /\ pre' = images
  /\ ncalls' = ncalls + 1
  /\ UNCHANGED <<hueVars, augVars, fnVars>>

NextConv ==
  \E t \in Tags, f \in Tags : CallChangeColorspace(1, t, f)

\* The converter applied to one image, any number of times up to MaxCalls.
Spec == InitConv /\ [][NextConv]_vars

(***************************************************************************)
(* Properties of change_colorspace_ (checked under Spec).                  *)
(***************************************************************************)
IsSingleCall == last.op = "change_colorspace_"
ToTag == last.to.s
FromTag == last.from.s
ValidImage(img) == img.dtype = "uint8" /\ img.ndim = 3 /\ img.channels = 3

\* C1: for every supported tag A and every valid uint8 (H,W,3) image,
\* change_colorspace_(image, A, A) returns the input image with the same
\* pixels, makes no conversion and does not fail.
C1_IdentityAllTags ==
  (IsSingleCall /\ ToTag = FromTag /\ ToTag \in CSPACE_ALL
     /\ ValidImage(pre[1]))
    => /\ last.err = "none"
       /\ last.calls[1] = <<>>
       /\ Pixels(last.ret[1]) = Pixels(pre[1])
       /\ images = pre

\* C2: for supported tags with from # GRAY and from # to, a pair with a
\* direct table entry (one side is RGB or BGR) takes exactly one primitive
\* conversion from -> to, every other pair exactly the two conversions
\* from -> RGB, RGB -> to, and no pair fails on a missing table entry.
HasDirectEntry(f, t) ==
  f \in {CSPACE_RGB, CSPACE_BGR} \/ t \in {CSPACE_RGB, CSPACE_BGR}

C2_HubRouting ==
  (IsSingleCall /\ ValidImage(pre[1]) /\ ToTag \in CSPACE_ALL
     /\ FromTag \in CSPACE_ALL \ {CSPACE_GRAY} /\ FromTag # ToTag)
    => /\ last.err = "none"
       /\ last.calls[1] =
            IF HasDirectEntry(FromTag, ToTag)
            THEN << <<FromTag, ToTag>> >>
            ELSE << <<FromTag, CSPACE_RGB>>, <<CSPACE_RGB, ToTag>> >>

\* A two-step conversion to GRAY has run on a valid image.
C2_Witness ==
  /\ IsSingleCall /\ last.err = "none" /\ ToTag = CSPACE_GRAY
  /\ Len(last.calls[1]) = 2

\* C3: a call with a tag outside the supported set, with from = GRAY and
\* to # GRAY, with an image that is not (H,W,3) or with a dtype other than
\* uint8 fails, makes no primitive conversion and leaves the pixels of the
\* input image as they were.
C3_ValidationBeforeConversion ==
  (IsSingleCall
     /\ \/ ToTag \notin CSPACE_ALL
        \/ FromTag \notin CSPACE_ALL
        \/ (FromTag = CSPACE_GRAY /\ ToTag # CSPACE_GRAY)
        \/ pre[1].ndim # 3
        \/ pre[1].channels # 3
        \/ pre[1].dtype # "uint8")
    => /\ last.err # "none"
       /\ last.calls[1] = <<>>
       /\ Pixels(images[1]) = Pixels(pre[1])

\* A call from GRAY to another colorspace failed on an image that an
\* earlier call had already converted.
C3_Witness ==
  /\ IsSingleCall /\ last.err = "AssertionError:gray"
  /\ ToTag # CSPACE_GRAY /\ pre[1].hist # <<>>

\* C5: every successful call on a uint8 (H,W,3) image returns a uint8
\* (H,W,3) image, by the direct or the two-step route; a conversion to GRAY
\* returns three identical channels.
C5_OutputShape ==
  (IsSingleCall /\ last.err = "none" /\ ValidImage(pre[1]))
    => /\ last.ret[1].ndim = 3
       /\ last.ret[1].channels = 3
       /\ last.ret[1].dtype = "uint8"
       /\ (ToTag = CSPACE_GRAY /\ FromTag # ToTag => last.ret[1].tiled)

\* A direct conversion to GRAY returned a tiled image.
C5_Witness ==
  /\ IsSingleCall /\ last.err = "none" /\ ToTag = CSPACE_GRAY
  /\ Len(last.calls[1]) = 1 /\ last.ret[1].tiled

(***************************************************************************)
(* The batch converter: a batch of up to MaxBatch arrays and calls of      *)
(* change_colorspaces_ with string and list arguments.                     *)
(***************************************************************************)
Batches == UNION {[1..n -> UNION {InputImages(b) : b \in 1..MaxBatch}]
                  : n \in 0..MaxBatch}

InitBatch ==
  /\ images \in {b \in Batches : \A i \in 1..Len(b) : b[i].base = i}
  /\ pre = images
  /\ last = NoCall
  /\ ncalls = 0
  /\ IdleHue
  /\ IdleAug
  /\ IdleFn

\* The tags used as elements of list arguments.
ToListTags == {CSPACE_RGB, CSPACE_GRAY, BadTag}
FromListTags == {CSPACE_RGB, CSPACE_GRAY}

\* Arguments for a batch of n images: strings, a non-string, lists of the
\* right length and lists one too short or too long.
WrongLengths(n) == {n + 1} \cup (IF n > 0 THEN {n - 1} ELSE {})
ToArgs(n) ==
  {StrArg(CSPACE_HSV), StrArg(BadTag), OtherArg}
    \cup {ListArg(l) : l \in [1..n -> ToListTags]}
    \cup {ListArg([j \in 1..m |-> CSPACE_HSV]) : m \in WrongLengths(n)}
FromArgs(n) ==
  {StrArg(CSPACE_RGB), OtherArg}
    \cup {ListArg(l) : l \in [1..n -> FromListTags]}
    \cup {ListArg([j \in 1..m |-> CSPACE_RGB]) : m \in WrongLengths(n)}

\* One call of change_colorspaces_ on the whole batch.
CallChangeColorspaces(to_colorspaces, from_colorspaces) ==
  /\ ncalls = 0
  /\ LET r == change_colorspaces_(images, to_colorspaces, from_colorspaces)
     IN  /\ images' = r.images
         /\ last' = [op |-> "change_colorspaces_", idx |-> 0,
                     to |-> to_colorspaces, from |-> from_colorspaces,
                     err |-> r.err, ret |-> r.images, aliased |-> FALSE,
                     calls |-> r.calls, k |-> r.k]
  /\ pre' = images
  /\ ncalls' = ncalls + 1
  /\ UNCHANGED <<hueVars, augVars, fnVars>>

NextBatch ==
  \E t \in ToArgs(Len(images)), f \in FromArgs(Len(images)) :
      CallChangeColorspaces(t, f)

SpecBatch == InitBatch /\ [][NextBatch]_vars

(***************************************************************************)
(* Properties of change_colorspaces_ (checked under SpecBatch).            *)
(***************************************************************************)
IsBatchCall == last.op = "change_colorspaces_"

\* What the caller asked for slot i: a string applies to every slot.
ArgOK(arg, n) ==
  arg.kind = "str" \/ (arg.kind = "list" /\ Len(arg.l) = n)
ArgAt(arg, i) == IF arg.kind = "str" THEN arg.s ELSE arg.l[i]
Single(i) == change_colorspace_(pre[i], ArgAt(last.to, i), ArgAt(last.from, i))
FirstFailure ==
  LET F == {i \in 1..Len(pre) : Single(i).err # "none"}
  IN  IF F = {} THEN Len(pre) + 1
      ELSE CHOOSE i \in F : \A j \in F : i <= j

\* C4: change_colorspaces_ converts slot i with (to[i], from[i]), a string
\* applying to every slot; a list of the wrong length fails before any
\* conversion; when the conversion of slot k fails, the slots before k hold
\* their converted images and the slots from k on are as they were.
C4_BatchOrderAndPartialFailure ==
  IsBatchCall =>
    IF ~ArgOK(last.to, Len(pre)) \/ ~ArgOK(last.from, Len(pre))
    THEN last.err # "none" /\ images = pre /\ last.calls = <<>>
    ELSE /\ Len(images) = Len(pre)
         /\ (last.err = "none") = (FirstFailure = Len(pre) + 1)
         /\ \A i \in 1..Len(pre) :
              images[i] = IF i < FirstFailure THEN Single(i).ret ELSE pre[i]
         /\ Len(last.calls) = FirstFailure - 1
         /\ \A i \in 1..Len(last.calls) : last.calls[i] = Single(i).calls

\* The second slot failed after the first slot had been converted.
C4_Witness ==
  /\ IsBatchCall /\ last.err # "none" /\ last.k = 1 /\ Len(images) = 2
  /\ images[1].hist # <<>> /\ images[2] = pre[2]

(***************************************************************************)
(* float32 arithmetic as numpy performs it on the hue projections          *)
(* (color.py:1264-1266): a positive float32 is m / 2^k with a 24-bit m;    *)
(* division and multiplication round to nearest, ties to even; astype(int) *)
(* truncates toward zero.  Every intermediate stays below 2^31.            *)
(***************************************************************************)
RECURSIVE Pow2(_)
Pow2(n) == IF n = 0 THEN 1 ELSE 2 * Pow2(n - 1)

Two23 == 8388608

RoundHalfEven(q, r, den) ==
  IF 2 * r > den \/ (2 * r = den /\ q % 2 = 1) THEN q + 1 ELSE q

\* Long division n / d, one mantissa bit per step.
RECURSIVE DivBits(_, _, _, _)
DivBits(q, r, d, k) ==
  IF q >= Two23 THEN [m |-> RoundHalfEven(q, r, d), k |-> k]
  ELSE LET bit == IF 2 * r >= d THEN 1 ELSE 0
       IN  DivBits(2 * q + bit, 2 * r - d * bit, d, k + 1)

F32Div(n, d) == DivBits(n \div d, n % d, d, 0)

\* floor(m * c / 2^s)
FloorShift(m, c, s) ==
  c * (m \div Pow2(s)) + (c * (m % Pow2(s))) \div Pow2(s)

\* The number of low bits the product m * c loses (c < 256).
RECURSIVE MulShift(_, _, _)
MulShift(m, c, s) ==
  IF s = 0 \/ FloorShift(m, c, s) >= Two23 THEN s ELSE MulShift(m, c, s - 1)

F32MulInt(x, c) ==
  LET s == MulShift(x.m, c, 8)
      q == FloorShift(x.m, c, s)
      r == (c * (x.m % Pow2(s))) % Pow2(s)
  IN  [m |-> RoundHalfEven(q, r, Pow2(s)), k |-> x.k - s]

F32Trunc(x) == IF x.k > 30 THEN 0 ELSE x.m \div Pow2(x.k)

\* ((n.astype(float32) / d) * c).astype(int)
F32Scale(n, d, c) ==
  IF n = 0 THEN 0
  ELSE LET a == IF n < 0 THEN -n ELSE n
           t == F32Trunc(F32MulInt(F32Div(a, d), c))
       IN  IF n < 0 THEN -t ELSE t

(***************************************************************************)
(* Constructor arguments and stochastic parameters.  An argument is None,  *)
(* a number, a list of numbers or a StochasticParameter instance; vals are *)
(* the numbers given, or the values the instance can sample.               *)
(***************************************************************************)
NumberArg(v) == [kind |-> "number", vals |-> {v}]
ListOfNumbers(vs) == [kind |-> "list", vals |-> vs]
ParamArg(vs) == [kind |-> "param", vals |-> vs]

\* iap.handle_discrete_param / iap.handle_continuous_param with a
\* value_range: numbers and lists are checked against the range, a
\* StochasticParameter instance is taken as it is (color.py:1832-1835).
handle_param(arg, lo, hi) ==
  IF arg.kind \in {"number", "list"} /\ \E v \in arg.vals : v < lo \/ v > hi
  THEN [err |-> "AssertionError:value_range", param |-> NoParam]
  ELSE [err |-> "none", param |-> [none |-> FALSE, support |-> arg.vals]]

NoneResult == [err |-> "none", param |-> NoParam]

\* _handle_value_arg without the two exclusivity assertions.
handle_value_arg_no_exclusivity(value, value_hue, value_saturation) ==
  IF value.kind # "None" THEN handle_param(value, -255, 255) ELSE NoneResult

\* _handle_value_arg, color.py:1348-1364
handle_value_arg(value, value_hue, value_saturation) ==
  IF value.kind # "None"
  THEN IF value_hue.kind # "None" \/ value_saturation.kind # "None"
       THEN [err |-> "AssertionError:exclusive", param |-> NoParam]
       ELSE handle_param(value, -255, 255)
  ELSE NoneResult

\* _handle_value_hue_arg, color.py:1366-1374
handle_value_hue_arg(value_hue) ==
  IF value_hue.kind # "None" THEN handle_param(value_hue, -255, 255)
  ELSE NoneResult

\* _handle_value_saturation_arg, color.py:1376-1384
handle_value_saturation_arg(value_saturation) ==
  IF value_saturation.kind # "None"
  THEN handle_param(value_saturation, -255, 255)
  ELSE NoneResult

FirstError(rs) ==
  IF \E i \in 1..Len(rs) : rs[i].err # "none"
  THEN rs[CHOOSE i \in 1..Len(rs) :
            rs[i].err # "none" /\ \A j \in 1..(i - 1) : rs[j].err = "none"].err
  ELSE "none"

\* AddToHueAndSaturation.__init__, color.py:1211-1228.  per_channel is the
\* probability, in percent, of sampling hue and saturation independently.
AddToHueAndSaturation_init(cls, value, value_hue, value_saturation, per_channel) ==
  LET v == handle_value_arg(value, value_hue, value_saturation)
      vh == handle_value_hue_arg(value_hue)
      vs == handle_value_saturation_arg(value_saturation)
      e == FirstError(<<v, vh, vs>>)
  IN  [err |-> e,
       result |-> IF e # "none" THEN NoAug
                  ELSE [cls |-> cls, value |-> v.param, value_hue |-> vh.param,
                        value_saturation |-> vs.param,
                        per_channel |-> per_channel, children |-> <<>>]]

\* MultiplyHueAndSaturation.__init__, color.py:847-927: the result is a
\* WithHueAndSaturation whose children multiply the H and S planes.
MultiplyHueAndSaturation_init(cls, mul, mul_hue, mul_saturation, per_channel) ==
  IF mul.kind # "None"
  THEN IF mul_hue.kind # "None" \/ mul_saturation.kind # "None"
       THEN [err |-> "AssertionError:exclusive", result |-> NoAug]
       ELSE LET m == handle_param(mul, -10, 10)
            IN  [err |-> m.err,
                 result |-> IF m.err # "none" THEN NoAug
                            ELSE [cls |-> cls, value |-> m.param,
                                  value_hue |-> NoParam,
                                  value_saturation |-> NoParam,
                                  per_channel |-> per_channel,
                                  children |-> <<"Multiply">>]]
  ELSE LET mh == IF mul_hue.kind # "None"
                 THEN handle_param(mul_hue, -10, 10) ELSE NoneResult
           ms == IF mul_saturation.kind # "None"
                 THEN handle_param(mul_saturation, 0, 10) ELSE NoneResult
           e == FirstError(<<mh, ms>>)
       IN  [err |-> e,
            result |-> IF e # "none" THEN NoAug
                       ELSE [cls |-> cls, value |-> NoParam,
                             value_hue |-> mh.param,
                             value_saturation |-> ms.param,
                             per_channel |-> per_channel,
                             children |->
                               (IF mul_hue.kind # "None"
                                THEN <<"WithChannelsHue">> ELSE <<>>)
                               \o (IF mul_saturation.kind # "None"
                                   THEN <<"WithChannelsSaturation">>
                                   ELSE <<>>)]]

AddClasses == {"AddToHueAndSaturation", "AddToHue", "AddToSaturation"}
MulClasses == {"MultiplyHueAndSaturation", "MultiplyHue", "MultiplySaturation"}

\* The constructor of each class (color.py:1462-1469, 1527-1534, 984-991,
\* 1045-1052): the one-channel classes pass their argument on as the hue
\* or as the saturation parameter.
Construct(cls, a1, a2, a3, per_channel) ==
  IF cls = "AddToHueAndSaturation"
    THEN AddToHueAndSaturation_init(cls, a1, a2, a3, per_channel)
  ELSE IF cls = "AddToHue"
    THEN AddToHueAndSaturation_init(cls, NoArg, a2, NoArg, 0)
  ELSE IF cls = "AddToSaturation"
    THEN AddToHueAndSaturation_init(cls, NoArg, NoArg, a3, 0)
  ELSE IF cls = "MultiplyHueAndSaturation"
    THEN MultiplyHueAndSaturation_init(cls, a1, a2, a3, per_channel)
  ELSE IF cls = "MultiplyHue"
    THEN MultiplyHueAndSaturation_init(cls, NoArg, a2, NoArg, 0)
  ELSE MultiplyHueAndSaturation_init(cls, NoArg, NoArg, a3, 0)

(***************************************************************************)
(* AddToHueAndSaturation: sampling, lookup tables and the transform.       *)
(***************************************************************************)
\* The projection without the scaling to the angular range.
ProjectHue_not_scaled(sample_hue) == sample_hue

\* color.py:1262-1266: project a sampled hue amount from [-255, 255] to
\* OpenCV's angular range, ((hue / 255.0) * (360/2)).astype(int32).
ProjectHue(sample_hue) == F32Scale(sample_hue, 255, 180)

\* The projection of the amounts -300..300, computed once.
ProjectedHue == [x \in -300..300 |-> ProjectHue(x)]
project_hue(sample_hue) ==
  IF sample_hue \in DOMAIN ProjectedHue THEN ProjectedHue[sample_hue]
  ELSE ProjectHue(sample_hue)

\* The values a parameter can sample; an unset parameter gives zeros
\* (color.py:1254, 1260).
Support(param) == IF param.none THEN {0} ELSE param.support

\* The per-image coin flips of per_channel (percent): draw > 0.5.
CoinFlips(per_channel) ==
  IF per_channel = 0 THEN {FALSE}
  ELSE IF per_channel = 100 THEN {TRUE} ELSE BOOLEAN

\* _draw_samples with the coin flip read the wrong way round.
draw_samples_coin_inverted(a, nb_images, pc, d1, d2) ==
  LET raw_saturation ==
        [i \in 1..nb_images |->
           IF a.value.none THEN d2[i]
           ELSE IF pc[i] THEN d1[i] ELSE d2[i]]
      err == IF a.value.none THEN "none"
             ELSE IF nb_images = 0 THEN "IndexError:samples"
             ELSE IF ~(-255 <= d1[1] /\ d1[1] <= 255)
                  THEN "AssertionError:range"
             ELSE "none"
  IN  [err |-> err,
       samples |-> [per_channel |-> pc,
                    raw_hue |-> [i \in 1..nb_images |-> d1[i]],
                    raw_saturation |-> raw_saturation,
                    hue |-> [i \in 1..nb_images |-> project_hue(d1[i])],
                    saturation |-> raw_saturation]]

\* _draw_samples, color.py:1230-1268.  pc are the coin flips, d1 and d2 the
\* two sampled columns (value path) or the hue and saturation samples.
draw_samples(a, nb_images, pc, d1, d2) ==
  LET raw_hue == [i \in 1..nb_images |-> d1[i]]
      raw_saturation ==
        [i \in 1..nb_images |->
           IF a.value.none THEN d2[i]
           ELSE IF pc[i] THEN d2[i] ELSE d1[i]]
      err == IF a.value.none THEN "none"
             ELSE IF nb_images = 0 THEN "IndexError:samples"
             ELSE IF ~(-255 <= d1[1] /\ d1[1] <= 255)
                  THEN "AssertionError:range"
             ELSE "none"
  IN  [err |-> err,
       samples |-> [per_channel |-> pc, raw_hue |-> raw_hue,
                    raw_saturation |-> raw_saturation,
                    hue |-> [i \in 1..nb_images |-> project_hue(raw_hue[i])],
                    saturation |-> raw_saturation]]

Clip(x, lo, hi) == IF x < lo THEN lo ELSE IF x > hi THEN hi ELSE x

\* _generate_lut_table, color.py:1386-1402: two tables of 512 rows of 256
\* entries; row 255+i is filled for i in -255..255, row 511 stays zero.
LutRows == 512
\* The generator with a loop that stops one shift early.
generate_lut_table_short_loop(op, row, v) ==
  IF row - 255 \in -255..254
  THEN IF op = "hue" THEN (v + (row - 255)) % 180
       ELSE Clip(v + (row - 255), 0, 255)
  ELSE 0

generate_lut_table(op, row, v) ==
  IF row - 255 \in -255..255
  THEN IF op = "hue" THEN (v + (row - 255)) % 180
       ELSE Clip(v + (row - 255), 0, 255)
  ELSE 0

\* Indexing a table of LutRows rows with a Python integer: a negative index
\* counts from the end, an index outside -LutRows..LutRows-1 raises.
RowIndex(idx) ==
  IF 0 <= idx /\ idx < LutRows THEN idx
  ELSE IF -LutRows <= idx /\ idx < 0 THEN idx + LutRows
  ELSE -1

\* _transform_image_cv2, color.py:1309-1332, on one pixel [h, s, v].  The
\* hue plane is assigned before the saturation row is looked up.
transform_image_cv2(image_hsv, hue, saturation) ==
  LET rh == RowIndex(255 + hue)
      rs == RowIndex(255 + saturation)
  IN  IF rh = -1 THEN [err |-> "IndexError:table_hue", image |-> image_hsv]
      ELSE LET img1 == [image_hsv EXCEPT
                          !.h = generate_lut_table("hue", rh, image_hsv.h)]
           IN  IF rs = -1
               THEN [err |-> "IndexError:table_saturation", image |-> img1]
               ELSE [err |-> "none",
                     image |-> [img1 EXCEPT
                       !.s = generate_lut_table("saturation", rs, img1.s)]]

\* The loop of _augment_images, color.py:1290-1305, from image i on.
RECURSIVE TransformLoop(_, _, _, _)
TransformLoop(imgs, hues, saturations, i) ==
  IF i > Len(imgs) THEN [err |-> "none", images |-> imgs]
  ELSE LET r == transform_image_cv2(imgs[i], hues[i], saturations[i])
           imgs1 == [imgs EXCEPT ![i] = r.image]
       IN  IF r.err # "none" THEN [err |-> r.err, images |-> imgs1]
           ELSE TransformLoop(imgs1, hues, saturations, i + 1)

\* AddToHueAndSaturation._augment_images, color.py:1270-1307.
AddToHueAndSaturation_augment_images(a, images_hsv, pc, d1, d2) ==
  LET d == draw_samples(a, Len(images_hsv), pc, d1, d2)
  IN  IF d.err # "none"
      THEN [err |-> d.err, images |-> images_hsv, samples |-> d.samples]
      ELSE LET t == TransformLoop(images_hsv, d.samples.hue,
                                  d.samples.saturation, 1)
           IN  [err |-> t.err, images |-> t.images, samples |-> d.samples]

(***************************************************************************)
(* The hue/saturation specification: one constructor call, then one        *)
(* augment call on a batch of up to MaxHueBatch one-pixel images.          *)
(***************************************************************************)
AddArgs ==
  {NoArg, NumberArg(0), NumberArg(255), NumberArg(300),
   ListOfNumbers({-255, 17}), ParamArg({-300, 256})}
MulArgs == {NoArg, NumberArg(2), NumberArg(-1), NumberArg(11), ParamArg({0, 20})}
PerChannelArgs == {0, 50, 100}

HsvPixels ==
  {[h |-> 0, s |-> 0, v |-> 7], [h |-> 90, s |-> 200, v |-> 7],
   [h |-> 179, s |-> 255, v |-> 250]}

InitHue == IdleHue /\ IdleConv /\ IdleAug /\ IdleFn

CallConstructor(cls, a1, a2, a3, per_channel) ==
  /\ phase = "new"
  /\ LET r == Construct(cls, a1, a2, a3, per_channel)
     IN  /\ ctor' = [cls |-> cls, value |-> a1, value_hue |-> a2,
                     value_saturation |-> a3, err |-> r.err,
                     result |-> r.result]
         /\ aug' = r.result
         /\ phase' = IF r.err = "none" THEN "constructed" ELSE "failed"
  /\ UNCHANGED <<aug_in, aug_out, smp, aug_err>>
  /\ UNCHANGED <<convVars, augVars, fnVars>>

CallAugmentImages(imgs, pc, d1, d2) ==
  /\ phase = "constructed"
  /\ aug.cls \in AddClasses
  /\ LET r == AddToHueAndSaturation_augment_images(aug, imgs, pc, d1, d2)
     IN  /\ aug_in' = imgs
         /\ aug_out' = r.images
         /\ smp' = r.samples
         /\ aug_err' = r.err
  /\ phase' = "augmented"
  /\ UNCHANGED <<ctor, aug>>
  /\ UNCHANGED <<convVars, augVars, fnVars>>

NextHue ==
  \/ \E cls \in {"AddToHueAndSaturation"}, a1 \in AddArgs, a2 \in AddArgs,
        a3 \in AddArgs, p \in PerChannelArgs :
        CallConstructor(cls, a1, a2, a3, p)
  \/ \E a \in AddArgs :
        \/ CallConstructor("AddToHue", NoArg, a, NoArg, 0)
        \/ CallConstructor("AddToSaturation", NoArg, NoArg, a, 0)
  \/ \E a1 \in MulArgs, a2 \in MulArgs, a3 \in MulArgs, p \in PerChannelArgs :
        CallConstructor("MultiplyHueAndSaturation", a1, a2, a3, p)
  \/ \E a \in MulArgs :
        \/ CallConstructor("MultiplyHue", NoArg, a, NoArg, 0)
        \/ CallConstructor("MultiplySaturation", NoArg, NoArg, a, 0)
  \/ /\ phase = "constructed"
     /\ \E n \in 0..MaxHueBatch :
          \E imgs \in [1..n -> HsvPixels],
             pc \in [1..n -> IF aug.value.none THEN {FALSE}
                             ELSE CoinFlips(aug.per_channel)],
             d1 \in [1..n -> IF aug.value.none THEN Support(aug.value_hue)
                             ELSE Support(aug.value)],
             d2 \in [1..n -> IF aug.value.none
                             THEN Support(aug.value_saturation)
                             ELSE Support(aug.value)] :
             CallAugmentImages(imgs, pc, d1, d2)

SpecHue == InitHue /\ [][NextHue]_vars

(***************************************************************************)
(* Properties of the hue/saturation augmenters (checked under SpecHue).    *)
(***************************************************************************)
IsSet(arg) == arg.kind # "None"
\* Numbers and lists given to the constructor lie in the declared range.
InDeclaredRange(arg, lo, hi) ==
  arg.kind \in {"number", "list"} => \A v \in arg.vals : lo <= v /\ v <= hi
CtorValuesInRange ==
  IF ctor.cls \in AddClasses
  THEN /\ InDeclaredRange(ctor.value, -255, 255)
       /\ InDeclaredRange(ctor.value_hue, -255, 255)
       /\ InDeclaredRange(ctor.value_saturation, -255, 255)
  ELSE /\ InDeclaredRange(ctor.value, -10, 10)
       /\ InDeclaredRange(ctor.value_hue, -10, 10)
       /\ InDeclaredRange(ctor.value_saturation, 0, 10)
CtorConflict ==
  IsSet(ctor.value) /\ (IsSet(ctor.value_hue) \/ IsSet(ctor.value_saturation))

\* C8: constructing AddToHueAndSaturation with value together with
\* value_hue or value_saturation, or MultiplyHueAndSaturation with mul
\* together with mul_hue or mul_saturation, fails and yields no augmenter;
\* every other combination of set and unset parameters (with values of the
\* declared range) constructs the augmenter.
C8_MutualExclusivity ==
  ctor.cls # "none" =>
    /\ CtorConflict =>
         /\ ctor.err = "AssertionError:exclusive"
         /\ ctor.result = NoAug /\ aug = NoAug /\ phase = "failed"
    /\ (~CtorConflict /\ CtorValuesInRange) =>
         /\ ctor.err = "none"
         /\ ctor.result.cls = ctor.cls /\ aug = ctor.result
         /\ phase \in {"constructed", "augmented"}

\* AddToHueAndSaturation was called with value and value_saturation set and
\* value_hue unset, and failed.
C8_Witness ==
  /\ ctor.cls = "AddToHueAndSaturation" /\ ctor.err = "AssertionError:exclusive"
  /\ IsSet(ctor.value) /\ ~IsSet(ctor.value_hue) /\ IsSet(ctor.value_saturation)

OutOfAddRange(x) == x < -255 \/ x > 255

\* C9: whenever an add amount outside [-255, 255] is sampled for any image
\* through value, value_hue or value_saturation, the augment call fails at
\* sampling time: no lookup table is indexed and no image is changed.
C9_RangeEnforcedAtSampling ==
  (phase = "augmented"
     /\ \E i \in 1..Len(aug_in) :
          OutOfAddRange(smp.raw_hue[i]) \/ OutOfAddRange(smp.raw_saturation[i]))
    => aug_err = "AssertionError:range" /\ aug_out = aug_in

\* C10: adding 255 (or -255) to the hue gives exactly the output of adding
\* 0: the hue wraps around the full circle and a native hue is left as
\* it is.
C10_HueWraparound ==
  (phase = "augmented" /\ aug_err = "none") =>
    \A i \in 1..Len(aug_in) :
      smp.raw_hue[i] \in {255, -255} =>
        /\ aug_out[i] = transform_image_cv2(aug_in[i], ProjectHue(0),
                                            smp.saturation[i]).image
        /\ (aug_in[i].h < 180 => aug_out[i].h = aug_in[i].h)

\* The second image of a batch had hue 179 and -255 added to its hue.
C10_Witness ==
  /\ phase = "augmented" /\ aug_err = "none" /\ Len(aug_in) = 2
  /\ smp.raw_hue[2] = -255 /\ aug_in[2].h = 179 /\ aug_out[2].h = 179

(***************************************************************************)
(* Augmenter nodes.  A node has a kind, a deterministic flag, a random     *)
(* stream (its state is a number) and, for the composite kinds, a list of  *)
(* children.  A child is an augmenter of its own with an identity, a flag  *)
(* and a stream.                                                           *)
(***************************************************************************)
CompositeKinds == {"WithColorspace", "WithHueAndSaturation"}
LeafKinds == {"AddToHueAndSaturation", "ChangeColorspace", "ColorQuantization"}

\* The random stream: drawing advances the state; derive_rng_() returns a
\* new stream seeded from the state and advances the state.
Advance(s) == (2 * s + 1) % RngModulus
DeriveSeed(s) == (s + 2) % RngModulus

\* A child applied to a batch (meta.Augmenter.augment_images): it draws
\* from its stream and changes every image by what it drew; a deterministic
\* child draws from a copy of its stream, so its stream stays as it is.
child_augment(child, imgs) ==
  [images |-> [i \in 1..Len(imgs) |->
                 [imgs[i] EXCEPT
                    !.hist = Append(@, <<"child", ToString(child.random_state)>>),
                    !.contiguous = TRUE, !.tiled = FALSE]],
   child |-> IF child.deterministic THEN child
             ELSE [child EXCEPT !.random_state = Advance(@)]]

\* children.augment_images: the children one after the other.
RECURSIVE children_augment(_, _, _)
children_augment(children, imgs, i) ==
  IF i > Len(children) THEN [images |-> imgs, children |-> children]
  ELSE LET r == child_augment(children[i], imgs)
       IN  children_augment([children EXCEPT ![i] = r.child], r.images, i + 1)

\* hooks is "None" or a hook object whose is_propagating() answers for this
\* node and parent chain: "propagate" or "block".
is_propagating_always(hooks) == TRUE

\* _is_propagating, color.py:514-516 and 712-714
is_propagating(hooks) == hooks = "None" \/ hooks = "propagate"

RECURSIVE SumCalls(_, _)
SumCalls(calls, i) ==
  IF i = 0 THEN 0 ELSE Len(calls[i]) + SumCalls(calls, i - 1)

CountCalls(calls) == SumCalls(calls, Len(calls))

Effect(node, out, nconv, sampled, child_calls, err) ==
  [node |-> node, output |-> out, nconv |-> nconv, sampled |-> sampled,
   child_calls |-> child_calls, err |-> err]

\* The composite body shared by WithColorspace._augment_images
\* (color.py:463-479) and WithHueAndSaturation._augment_images
\* (color.py:624-677): convert, hand the batch to the children with the
\* parent chain extended by this node, convert back.  c1 is the result of
\* the first conversion, ch of the children, c2 of the conversion back.
composite_result(node, parents, hooks, c1, ch, c2) ==
  Effect([node EXCEPT !.children = ch.children], c2.images,
         CountCalls(c1.calls) + CountCalls(c2.calls), FALSE,
         <<[parents |-> Append(parents, node.kind), images |-> c1.images,
            hooks |-> hooks]>>,
         c2.err)

\* The composite body with the conversion back left out.
composite_no_convert_back(node, parents, hooks, to_cs, c1, ch) ==
  composite_result(node, parents, hooks, c1, ch,
                   [images |-> ch.images, err |-> "none", k |-> 0,
                    calls |-> <<>>])

composite_convert_back(node, parents, hooks, to_cs, c1, ch) ==
  composite_result(node, parents, hooks, c1, ch,
                   change_colorspaces_(ch.images, StrArg(node.from_colorspace),
                                       StrArg(to_cs)))

composite_children(node, parents, hooks, to_cs, c1) ==
  IF c1.err # "none"
  THEN Effect(node, c1.images, CountCalls(c1.calls), FALSE, <<>>, c1.err)
  ELSE composite_convert_back(node, parents, hooks, to_cs, c1,
                              children_augment(node.children, c1.images, 1))

composite_augment_images(node, imgs, parents, hooks, to_cs) ==
  IF is_propagating(hooks)
  THEN composite_children(node, parents, hooks, to_cs,
                          change_colorspaces_(imgs, StrArg(to_cs),
                                              StrArg(node.from_colorspace)))
  ELSE Effect(node, imgs, 0, FALSE, <<>>, "none")

\* _augment_nonimages, color.py:504-512 and 702-710
augment_nonimages(node, augmentables, parents, hooks) ==
  IF is_propagating(hooks)
  THEN LET ch == children_augment(node.children, augmentables, 1)
           call == [parents |-> Append(parents, node.kind),
                    images |-> augmentables, hooks |-> hooks]
       IN  Effect([node EXCEPT !.children = ch.children], ch.images, 0, FALSE,
                  <<call>>, "none")
  ELSE Effect(node, augmentables, 0, FALSE, <<>>, "none")

\* The leaf bodies.  AddToHueAndSaturation._augment_images
\* (color.py:1270-1307) converts to HSV, samples, transforms and converts
\* back; _AbstractColorQuantization._augment_images (color.py:1840-1901)
\* samples n_colors, converts to its working colorspace, quantizes and
\* converts back; ChangeColorspace._augment_images (color.py:1709-1729)
\* samples and converts (alpha = 1).  None of them reads hooks.
leaf_result(node, nconv, c) ==
  Effect(node, c.images, nconv + CountCalls(c.calls), TRUE, <<>>, c.err)

leaf_transform(node, step, to_cs, random_state, c1) ==
  IF c1.err # "none"
  THEN Effect(node, c1.images, CountCalls(c1.calls), FALSE, <<>>, c1.err)
  ELSE leaf_result(
         node, CountCalls(c1.calls),
         change_colorspaces_(
           [i \in 1..Len(c1.images) |->
              [c1.images[i] EXCEPT
                 !.hist = Append(@, <<step, ToString(random_state)>>)]],
           StrArg(node.from_colorspace), StrArg(to_cs)))

leaf_working_colorspace(node) ==
  IF node.kind = "AddToHueAndSaturation" THEN CSPACE_HSV
  ELSE node.to_colorspace

leaf_augment_images(node, imgs, random_state, hooks) ==
  IF node.kind = "ChangeColorspace"
  THEN leaf_result(node, 0,
                   change_colorspaces_(imgs, StrArg(node.to_colorspace),
                                       StrArg(node.from_colorspace)))
  ELSE leaf_transform(
         node,
         IF node.kind = "AddToHueAndSaturation" THEN "lut" ELSE "quantize",
         leaf_working_colorspace(node), random_state,
         change_colorspaces_(imgs, StrArg(leaf_working_colorspace(node)),
                             StrArg(node.from_colorspace)))

\* node._augment_images / node._augment_heatmaps etc. for every kind.
augment_body(node, method, batch, random_state, parents, hooks) ==
  IF node.kind \in CompositeKinds
  THEN IF method = "images"
       THEN composite_augment_images(
              node, batch, parents, hooks,
              IF node.kind = "WithColorspace" THEN node.to_colorspace
              ELSE CSPACE_HSV)
       ELSE augment_nonimages(node, batch, parents, hooks)
  ELSE IF method = "images"
       THEN leaf_augment_images(node, batch, random_state, hooks)
       ELSE Effect(node, batch, 0, FALSE, <<>>, "none")

\* Augmenter.augment_images etc.: the body is run with the node's stream,
\* or with a copy of it when the node is deterministic.
augment_done(node, e) ==
  IF node.deterministic THEN e
  ELSE [e EXCEPT !.node.random_state = Advance(node.random_state)]

augment(node, method, batch, parents, hooks) ==
  augment_done(node, augment_body(node, method, batch, node.random_state,
                                  parents, hooks))

\* children.to_deterministic(): a copy of every child, deterministic, with
\* a stream derived from the child's stream.
children_to_deterministic(children) ==
  [i \in 1..Len(children) |->
     [id |-> children[i].id + Len(children), deterministic |-> TRUE,
      random_state |-> DeriveSeed(children[i].random_state)]]

\* _to_deterministic with the children left as they are in the original.
to_deterministic_children_shared(node) ==
  [node EXCEPT !.deterministic = TRUE,
               !.random_state = DeriveSeed(node.random_state)]

\* _to_deterministic, color.py:518-523 and 716-721
to_deterministic(node) ==
  [node EXCEPT !.children = children_to_deterministic(node.children),
               !.deterministic = TRUE,
               !.random_state = DeriveSeed(node.random_state)]

\* What the call leaves of the original: derive_rng_() has advanced its
\* stream and the streams of its children.
after_to_deterministic(node) ==
  [node EXCEPT !.random_state = Advance(@),
               !.children = [i \in 1..Len(node.children) |->
                               [node.children[i] EXCEPT
                                  !.random_state = Advance(@)]]]

(***************************************************************************)
(* SpecGate: one augmenter of any kind and one call of one of its          *)
(* _augment_* methods, with or without a hook object.                      *)
(* SpecDet: a composite augmenter, to_deterministic() and augment calls on *)
(* the original and on the clone.                                          *)
(***************************************************************************)
ChildLists ==
  UNION {{[i \in 1..n |-> [id |-> i, deterministic |-> FALSE,
                          random_state |-> rs[i]]] :
            rs \in [1..n -> 0..1]} : n \in 0..MaxChildren}

Nodes(kinds) ==
  {[kind |-> k, deterministic |-> d, random_state |-> r, children |-> c,
    to_colorspace |-> CSPACE_HSV, from_colorspace |-> f] :
     k \in kinds, d \in BOOLEAN, r \in 0..1,
     c \in ChildLists, f \in {CSPACE_RGB, CSPACE_HSV}}

IsNode(n) == n.kind \in CompositeKinds \/ n.children = <<>>

ImageBatches ==
  {<<MkImage(3, 3, "uint8", TRUE, 1)>>, <<MkImage(3, 3, "uint8", FALSE, 2)>>,
   <<MkImage(3, 3, "uint8", TRUE, 1), MkImage(3, 3, "uint8", TRUE, 2)>>}
NonImageBatches == {<<MkImage(3, 1, "float32", TRUE, 1)>>}
Inputs(method) == IF method = "images" THEN ImageBatches ELSE NonImageBatches

InitAug(kinds) ==
  /\ tree \in {n \in Nodes(kinds) : IsNode(n)}
  /\ clone = NoNode
  /\ tree_was = NoNode
  /\ prev_call = NoAugCall
  /\ last_call = NoAugCall
  /\ naug = 0
  /\ IdleConv /\ IdleHue /\ IdleFn

CallRecord(target, method, hooks, batch, e) ==
  [target |-> target, method |-> method, hooks |-> hooks, input |-> batch,
   output |-> e.output, nconv |-> e.nconv, sampled |-> e.sampled,
   child_calls |-> e.child_calls, err |-> e.err]

TreeCalled(method, hooks, batch, e) ==
  /\ tree' = e.node
  /\ prev_call' = last_call
  /\ last_call' = CallRecord("tree", method, hooks, batch, e)
  /\ naug' = naug + 1
  /\ UNCHANGED <<clone, tree_was, convVars, hueVars, fnVars>>

CloneCalled(method, hooks, batch, e) ==
  /\ clone' = e.node
  /\ prev_call' = last_call
  /\ last_call' = CallRecord("clone", method, hooks, batch, e)
  /\ naug' = naug + 1
  /\ UNCHANGED <<tree, tree_was, convVars, hueVars, fnVars>>

\* One call on the original augmenter.
AugmentTree(method, hooks, batch) ==
  TreeCalled(method, hooks, batch, augment(tree, method, batch, <<>>, hooks))

\* One call on the deterministic clone.
AugmentClone(method, hooks, batch) ==
  /\ clone # NoNode
  /\ CloneCalled(method, hooks, batch,
                 augment(clone, method, batch, <<>>, hooks))

ToDeterministic ==
  /\ clone = NoNode
  /\ tree.kind \in CompositeKinds
  /\ clone' = to_deterministic(tree)
  /\ tree' = after_to_deterministic(tree)
  /\ tree_was' = tree
  /\ UNCHANGED <<prev_call, last_call, naug, convVars, hueVars, fnVars>>

InitGate == InitAug(CompositeKinds \cup LeafKinds)

NextGate ==
  \E method \in {"images", "nonimages"}, hooks \in {"None", "propagate", "block"} :
    \E batch \in Inputs(method) :
      naug = 0 /\ AugmentTree(method, hooks, batch)

SpecGate == InitGate /\ [][NextGate]_vars

InitDet == InitAug(CompositeKinds)

NextDet ==
  \/ ToDeterministic
  \/ \E batch \in ImageBatches :
       naug < MaxAugCalls /\ AugmentTree("images", "None", batch)
  \/ \E batch \in ImageBatches :
       naug < MaxAugCalls /\ AugmentClone("images", "None", batch)

SpecDet == InitDet /\ [][NextDet]_vars

(***************************************************************************)
(* Claims about the propagation gate, checked under SpecGate.              *)
(***************************************************************************)
IsGateCall == last_call.target = "tree"
Blocked == IsGateCall /\ last_call.hooks = "block"
Untouched ==
  /\ last_call.output = last_call.input
  /\ last_call.nconv = 0
  /\ ~last_call.sampled
  /\ last_call.child_calls = <<>>
ChildrenInvoked ==
  /\ Len(last_call.child_calls) = 1
  /\ last_call.child_calls[1].parents = <<tree.kind>>
  /\ last_call.child_calls[1].hooks = last_call.hooks

ChildIds(node) == [i \in 1..Len(node.children) |-> node.children[i].id]
ChildFlags(node) ==
  [i \in 1..Len(node.children) |-> node.children[i].deterministic]
TwoCloneCalls ==
  /\ prev_call.target = "clone"
  /\ last_call.target = "clone"
  /\ prev_call.input = last_call.input

\* C7: the copy returned by to_deterministic() on a composite node and every
\* child of the copy are deterministic and keep the stream they were given,
\* two successive augment calls on the copy with equal input give equal
\* output, and the original keeps its deterministic flag and its children.
C7_DeterministicClone ==
  clone # NoNode =>
    /\ clone.deterministic
    /\ \A i \in 1..Len(clone.children) : clone.children[i].deterministic
    /\ clone.random_state = to_deterministic(tree_was).random_state
    /\ clone.children = to_deterministic(tree_was).children
    /\ Len(clone.children) = Len(tree_was.children)
    /\ TwoCloneCalls => prev_call.output = last_call.output
    /\ tree.deterministic = tree_was.deterministic
    /\ ChildIds(tree) = ChildIds(tree_was)
    /\ ChildFlags(tree) = ChildFlags(tree_was)
    /\ \A i \in 1..Len(clone.children), j \in 1..Len(tree.children) :
         clone.children[i].id # tree.children[j].id

\* The copy of a non-deterministic composite with children was called twice
\* on the same batch.
C7_Witness ==
  /\ clone # NoNode
  /\ TwoCloneCalls
  /\ last_call.err = "none"
  /\ ~tree_was.deterministic
  /\ Len(clone.children) > 0
  /\ clone.from_colorspace = CSPACE_RGB

(***************************************************************************)
(* The two ways of adding to hue and saturation, on one HSV pixel:         *)
(* AddToHueAndSaturation (lookup tables) and WithHueAndSaturation with     *)
(* children that add to the H and to the S channel.                        *)
(***************************************************************************)
\* color.py:636-638: the hue plane handed to the children,
\* ((h.astype(float32) / 180.0) * 255.0).astype(int16).
hue_to_children(h) == F32Scale(h, 180, 255)

\* A child adding a number to one channel of the int16 planes
\* (arithmetic.Add inside WithChannels).
child_add(x, amount) == x + amount

\* np.mod with a positive divisor: the result is never negative.
np_mod(x, m) == x % m

\* The hue post-processing with the modulo left out.
hue_from_children_no_mod(hue_aug) == F32Scale(hue_aug, 255, 180) % 256

\* The hue post-processing scaled to degrees, 0..360, instead of 0..180.
hue_from_children_degrees(hue_aug) ==
  F32Scale(np_mod(hue_aug, 255), 255, 360) % 256

\* color.py:658-660: ((np.mod(hue_aug, 255).astype(float32) / 255.0)
\* * (360/2)).astype(uint8)
hue_from_children(hue_aug) == F32Scale(np_mod(hue_aug, 255), 255, 180) % 256

\* The saturation post-processing with the clipping left out: the cast to
\* uint8 wraps.
sat_from_children_wrapped(sat_aug) == sat_aug % 256

\* color.py:661: iadt.clip_(sat_aug, 0, 255).astype(uint8)
sat_from_children(sat_aug) == Clip(sat_aug, 0, 255) % 256

\* color.py:655-665 on one pixel: the planes the children left and the V
\* value of the HSV-converted input.
postprocess_pixel(hue_aug, sat_aug, v) ==
  [h |-> hue_from_children(hue_aug), s |-> sat_from_children(sat_aug),
   v |-> v]

\* WithHueAndSaturation._augment_images, color.py:631-668, on one HSV pixel
\* with children adding add_hue to channel 0 and add_sat to channel 1; the
\* V channel is re-attached as it was.
WithHueAndSaturation_pixel(px, add_hue, add_sat) ==
  [err |-> "none",
   image |-> postprocess_pixel(child_add(hue_to_children(px.h), add_hue),
                               child_add(px.s, add_sat), px.v)]

\* AddToHueAndSaturation(value_hue=..., value_saturation=...) given
\* parameters that sample add_hue and add_sat, called on one HSV pixel.
AddToHueAndSaturation_pixel(px, add_hue, add_sat) ==
  AddToHueAndSaturation_augment_images(
    Construct("AddToHueAndSaturation", NoArg, ParamArg({add_hue}),
              ParamArg({add_sat}), 0).result,
    <<px>>, <<FALSE>>, <<add_hue>>, <<add_sat>>)

LutResult(r) == [err |-> r.err, image |-> r.images[1]]

(***************************************************************************)
(* SpecHS: one pixel and one pair of amounts; each path is applied once.   *)
(***************************************************************************)
Hues == {0, 1, 2, 89, 90, 178, 179}
Saturations == {0, 100, 255}
HueShifts == {-255, -252, -128, -1, 0, 1, 127, 254, 255}
SaturationAmounts == {-300, -255, -100, 0, 100, 255, 256}

InitHS ==
  /\ applied = "none"
  /\ fn_in \in [px : [h : Hues, s : Saturations, v : {7}],
               add_hue : HueShifts, add_sat : SaturationAmounts]
  /\ fn_out = [lut |-> NoValue, children |-> NoValue]
  /\ IdleConv /\ IdleHue /\ IdleAug

AugmentWithTables ==
  /\ fn_out.lut = NoValue
  /\ applied' = "AddToHueAndSaturation"
  /\ fn_out' = [fn_out EXCEPT
                  !.lut = LutResult(AddToHueAndSaturation_pixel(
                                      fn_in.px, fn_in.add_hue, fn_in.add_sat))]
  /\ UNCHANGED <<fn_in, convVars, hueVars, augVars>>

AugmentWithChildren ==
  /\ fn_out.children = NoValue
  /\ applied' = "WithHueAndSaturation"
  /\ fn_out' = [fn_out EXCEPT
                  !.children = WithHueAndSaturation_pixel(
                                 fn_in.px, fn_in.add_hue, fn_in.add_sat)]
  /\ UNCHANGED <<fn_in, convVars, hueVars, augVars>>

NextHS == AugmentWithTables \/ AugmentWithChildren

SpecHS == InitHS /\ [][NextHS]_vars

(***************************************************************************)
(* Claims about the two paths, checked under SpecHS.                       *)
(***************************************************************************)
TablesApplied == fn_out.lut # NoValue /\ fn_out.lut.err = "none"
ChildrenApplied == fn_out.children # NoValue
ClippedSaturation == Clip(fn_in.px.s + fn_in.add_sat, 0, 255)

\* C11: in both paths the output saturation is clip(s + a, 0, 255) for every
\* input saturation s and every applied amount a.
C11_SaturationClips ==
  /\ TablesApplied => fn_out.lut.image.s = ClippedSaturation
  /\ ChildrenApplied => fn_out.children.image.s = ClippedSaturation

BothApplied == TablesApplied /\ ChildrenApplied
\* n * c / d truncated toward zero, in integers.
TruncScale(n, c, d) ==
  IF n >= 0 THEN (n * c) \div d ELSE -(((-n) * c) \div d)
\* The distance between two hues on the circle of 180.
HueDistance(a, b) ==
  IF (a - b) % 180 <= (b - a) % 180 THEN (a - b) % 180 ELSE (b - a) % 180
\* ((hue_in + s) mod 255) scaled to [0, 180], hue_in being h scaled to
\* [0, 255].
SpecifiedHue ==
  TruncScale((TruncScale(fn_in.px.h, 255, 180) + fn_in.add_hue) % 255, 180, 255)

\* C12 as stated: for every native hue h and every shift s, the lookup-table
\* path yields ((hue_in + s) mod 255) scaled to [0, 180], which is what
\* WithHueAndSaturation with a child adding s to the hue channel yields.
C12_TablesEqualArithmetic ==
  BothApplied =>
    /\ fn_out.lut.image.h = SpecifiedHue
    /\ fn_out.lut.image.h = fn_out.children.image.h

\* C12 amended: for every native hue h and every shift s in [-255, 255] the
\* lookup-table path yields (h + t) mod 180, t being s * 180 / 255 truncated
\* toward zero; WithHueAndSaturation with a child adding s to the hue
\* channel yields ((hue_in + s) mod 255) scaled to [0, 180]; both lie in
\* 0..179 and differ by at most 2 on the hue circle.
C12_TablesNearArithmetic ==
  BothApplied =>
    /\ fn_out.lut.image.h
         = (fn_in.px.h + TruncScale(fn_in.add_hue, 180, 255)) % 180
    /\ fn_out.children.image.h = SpecifiedHue
    /\ fn_out.lut.image.h \in 0..179
    /\ fn_out.children.image.h \in 0..179
    /\ HueDistance(fn_out.lut.image.h, fn_out.children.image.h) <= 2

\* Both paths wrapped around the end of the hue range and differ.
C12_Witness ==
  /\ BothApplied
  /\ fn_in.px.h + TruncScale(fn_in.add_hue, 180, 255) >= 180
  /\ TruncScale(fn_in.px.h, 255, 180) + fn_in.add_hue >= 255
  /\ fn_out.lut.image.h # fn_out.children.image.h

(***************************************************************************)
(* float32 arithmetic of quantize_colors_uniform (color.py:2373-2376):     *)
(* q = 256 / n_colors enters the float32 array operations as a float32;    *)
(* a float32 is the record [m, k] standing for m / 2^k.                    *)
(***************************************************************************)
RECURSIVE Log2(_)
Log2(n) == IF n < 2 THEN 0 ELSE 1 + Log2(n \div 2)

\* np.floor(v.astype(float32) / x) for an integer v in 0..255 and x >= 1:
\* the exact quotient is b0 + r / x.m; it rounds up to the integer b0 + 1
\* when it lies within half a unit in the last place of it.
F32FloorDiv(v, x) ==
  LET num == v * Pow2(x.k)
      b0 == num \div x.m
      r == num % x.m
      e == IF b0 = 0 THEN -1 ELSE Log2(b0)
  IN  IF r # 0 /\ x.m - r <= x.m \div Pow2(24 - e) THEN b0 + 1 ELSE b0

\* x + y for float32 x >= y > 0.
F32Add(x, y) ==
  LET t == y.k - x.k
      i == x.m + y.m \div Pow2(t)
      f == y.m % Pow2(t)
  IN  IF i < 2 * Two23
      THEN [m |-> RoundHalfEven(i, f, Pow2(t)), k |-> x.k]
      ELSE [m |-> RoundHalfEven(i \div 2, (i % 2) * Pow2(t) + f, Pow2(t + 1)),
            k |-> x.k - 1]

\* np.round: to the nearest integer, ties to even.
F32Round(x) == RoundHalfEven(x.m \div Pow2(x.k), x.m % Pow2(x.k), Pow2(x.k))

F32Half(x) == [m |-> x.m, k |-> x.k + 1]

(***************************************************************************)
(* The two quantization strategies on arrays of pixels.  An array has a    *)
(* shape (h, w, c), a dtype and h * w pixels of c values each.             *)
(***************************************************************************)
MkArray(h, w, c, dtype, px) ==
  [h |-> h, w |-> w, c |-> c, dtype |-> dtype, px |-> px]

\* The lower edge of the bin, floor(v / q) * q, without the + q/2.
uniform_bin_lower_edge(v, q) ==
  IF F32FloorDiv(v, q) = 0 THEN [m |-> 0, k |-> 0]
  ELSE F32MulInt(q, F32FloorDiv(v, q))

\* color.py:2374: np.floor(image.astype(np.float32) / q) * q + q/2
uniform_bin(v, q) ==
  IF F32FloorDiv(v, q) = 0 THEN F32Half(q)
  ELSE F32Add(F32MulInt(q, F32FloorDiv(v, q)), F32Half(q))

\* color.py:2373-2376, np.round(image_aug) on one value, q = 256 / n_colors.
uniform_rounded(v, n_colors) ==
  F32Round(uniform_bin(v, F32Div(256, n_colors)))

\* color.py:2373-2376 on one value: q = 256 / n_colors, the bin, then
\* np.clip(np.round(.), 0, 255).astype(np.uint8)
uniform_value(v, n_colors) == Clip(uniform_rounded(v, n_colors), 0, 255)

\* The assertions both strategies start with (color.py:2131-2138,
\* 2362-2366); quantize_colors_uniform does not look at ndim.
quantize_asserts(strategy, ndim, dtype, n_colors) ==
  IF strategy = "kmeans" /\ ndim \notin {2, 3} THEN "AssertionError:ndim"
  ELSE IF dtype # "uint8" THEN "AssertionError:dtype"
  ELSE IF ~(2 <= n_colors /\ n_colors <= 256) THEN "AssertionError:n_colors"
  ELSE "none"

QuantizeResult(err, image, events) ==
  [err |-> err, image |-> image, events |-> events]

\* quantize_colors_uniform, color.py:2312-2377
quantize_colors_uniform(image, n_colors) ==
  IF quantize_asserts("uniform", 3, image.dtype, n_colors) # "none"
  THEN QuantizeResult(quantize_asserts("uniform", 3, image.dtype, n_colors),
                      image, <<>>)
  ELSE IF Clip(n_colors, 2, 256) = 256
  THEN QuantizeResult("none", image, <<>>)
  ELSE QuantizeResult(
         "none",
         [image EXCEPT
            !.px = [i \in 1..Len(image.px) |->
                      [j \in 1..Len(image.px[i]) |->
                         uniform_value(image.px[i][j],
                                       Clip(n_colors, 2, 256))]]],
         <<>>)

\* A two-dimensional array (h, w) is written with c = 0.
ArrayNdim(image) == IF image.c = 0 THEN 2 ELSE 3
\* color.py:2145: nb_channels = 1 if image.ndim == 2 else image.shape[-1]
NbChannels(image) == IF ArrayNdim(image) = 2 THEN 1 ELSE image.c

\* cv2.kmeans: labels gives every pixel one of n_colors clusters and the
\* center of a cluster is the mean of its pixels; color.py:2170-2172 casts
\* the centers to uint8 and puts the center of its cluster in every pixel.
Members(labels, k) == {i \in 1..Len(labels) : labels[i] = k}

RECURSIVE SumChannel(_, _, _)
SumChannel(px, members, j) ==
  IF members = {} THEN 0
  ELSE LET i == CHOOSE x \in members : TRUE
       IN  px[i][j] + SumChannel(px, members \ {i}, j)

center_uint8(px, labels, k, j) ==
  SumChannel(px, Members(labels, k), j) \div Cardinality(Members(labels, k))

\* The clustering with the reseeding after it (color.py:2165-2166) left out:
\* the events of the call.
kmeans_events_not_reseeded ==
  <<<<"cv2.setRNGSeed", "1">>, <<"cv2.kmeans", "KMEANS_RANDOM_CENTERS">>>>

\* color.py:2161-2166: the events of a clustering call, in order.
kmeans_events ==
  <<<<"cv2.setRNGSeed", "1">>, <<"cv2.kmeans", "KMEANS_RANDOM_CENTERS">>,
    <<"global_rng.generate_seed_", "">>, <<"cv2.setRNGSeed", "global">>>>

\* quantize_colors_kmeans with the degenerate case left out.
quantize_colors_kmeans_always_clusters(image, n_colors, labels) ==
  IF quantize_asserts("kmeans", ArrayNdim(image), image.dtype, n_colors)
       # "none"
  THEN QuantizeResult(quantize_asserts("kmeans", ArrayNdim(image),
                                       image.dtype, n_colors), image, <<>>)
  ELSE QuantizeResult(
         "none",
         [image EXCEPT
            !.px = [i \in 1..Len(image.px) |->
                      [j \in 1..NbChannels(image) |->
                         center_uint8(image.px, labels, labels[i], j)]]],
         kmeans_events)

\* quantize_colors_kmeans, color.py:2073-2172
quantize_colors_kmeans(image, n_colors, labels) ==
  IF quantize_asserts("kmeans", ArrayNdim(image), image.dtype, n_colors)
       # "none"
  THEN QuantizeResult(quantize_asserts("kmeans", ArrayNdim(image),
                                       image.dtype, n_colors), image, <<>>)
  ELSE IF n_colors >= image.h * image.w
  THEN QuantizeResult("none", image, <<>>)
  ELSE QuantizeResult(
         "none",
         [image EXCEPT
            !.px = [i \in 1..Len(image.px) |->
                      [j \in 1..NbChannels(image) |->
                         center_uint8(image.px, labels, labels[i], j)]]],
         kmeans_events)

\* KMeansColorQuantization._quantize, color.py:2069-2070: the augmenter's
\* random stream is not among the arguments.
KMeansColorQuantization_quantize(random_state, image, n_colors, labels) ==
  quantize_colors_kmeans(image, n_colors, labels)

\* UniformColorQuantization._quantize, color.py:2308-2309
UniformColorQuantization_quantize(random_state, image, n_colors) ==
  quantize_colors_uniform(image, n_colors)

(***************************************************************************)
(* SpecStrategy: one array, one n_colors, one augmenter stream; one of the *)
(* two _quantize methods is called once.                                   *)
(***************************************************************************)
NColors == {1, 2, 3, 4, 6, 14, 16, 28, 100, 186, 255, 256, 257}
Palette(c) ==
  IF c = 3 THEN {<<0, 0, 0>>, <<0, 0, 255>>, <<0, 255, 0>>}
  ELSE {<<0>>, <<100>>, <<255>>}

Arrays ==
  {MkArray(1, 1, 1, "uint8", <<<<v>>>>) : v \in 0..255}
    \cup UNION {{MkArray(1, MaxPixels, c, "uint8", px) :
                   px \in [1..MaxPixels -> Palette(c)]} : c \in {0, 1, 3}}
    \cup {MkArray(1, 1, 1, "float32", <<<<0>>>>)}

Labellings(image, n_colors) ==
  IF n_colors \in 2..(image.h * image.w - 1)
  THEN [1..(image.h * image.w) -> 1..n_colors]
  ELSE {[i \in 1..(image.h * image.w) |-> 1]}

InitStrategy ==
  /\ applied = "none"
  /\ fn_in \in [image : Arrays, n_colors : NColors,
               random_state : 0..(RngModulus - 1)]
  /\ fn_out = NoValue
  /\ IdleConv /\ IdleHue /\ IdleAug

QuantizeUniform ==
  /\ applied = "none"
  /\ applied' = "uniform"
  /\ fn_out' = UniformColorQuantization_quantize(
                 fn_in.random_state, fn_in.image, fn_in.n_colors)
  /\ UNCHANGED <<fn_in, convVars, hueVars, augVars>>

QuantizeKMeans(labels) ==
  /\ applied = "none"
  /\ applied' = "kmeans"
  /\ fn_out' = KMeansColorQuantization_quantize(
                 fn_in.random_state, fn_in.image, fn_in.n_colors, labels)
  /\ UNCHANGED <<fn_in, convVars, hueVars, augVars>>

NextStrategy ==
  \/ QuantizeUniform
  \/ \E labels \in Labellings(fn_in.image, fn_in.n_colors) :
       QuantizeKMeans(labels)

SpecStrategy == InitStrategy /\ [][NextStrategy]_vars

(***************************************************************************)
(* ChangeColorspace on one image, color.py:1714-1727.  alpha is given in   *)
(* percent; eps is far below one percent, so alpha <= eps means alpha = 0. *)
(***************************************************************************)
ContentToken(image) == ToString(<<image.base, image.hist>>)

\* blend.blend_alpha(image_fg, image_bg, alpha, eps): the foreground for
\* alpha >= 1 - eps, the background for alpha <= eps, else a new array
\* holding alpha * foreground + (1 - alpha) * background.
blend_alpha(image_fg, image_bg, alpha) ==
  IF alpha >= 100 THEN image_fg
  ELSE IF alpha <= 0 THEN image_bg
  ELSE [image_fg EXCEPT
          !.hist = Append(@, <<"blend " \o ToString(alpha),
                               ContentToken(image_bg)>>),
          !.contiguous = TRUE, !.tiled = FALSE]

\* color.py:1727: image_aug is blended with image, the caller's array as it
\* is after the conversion.
ChangeColorspace_blend(r, alpha) ==
  IF r.err # "none" THEN [err |-> r.err, image |-> r.src]
  ELSE [err |-> "none", image |-> blend_alpha(r.ret, r.src, alpha)]

\* The body of the loop of ChangeColorspace._augment_images,
\* color.py:1715-1727.
ChangeColorspace_image(image, alpha, to_colorspace, from_colorspace) ==
  IF to_colorspace \notin CSPACE_ALL
  THEN [err |-> "AssertionError:colorspace", image |-> image]
  ELSE IF alpha <= 0 \/ from_colorspace = to_colorspace
  THEN [err |-> "none", image |-> image]
  ELSE ChangeColorspace_blend(
         change_colorspace_(image, to_colorspace, from_colorspace), alpha)

(***************************************************************************)
(* The scaffold of the colour quantizers, _AbstractColorQuantization       *)
(* (color.py:1810-1928).  An image has a shape (h, w, c), its colour       *)
(* planes (the first three channels, or the only channel) with their       *)
(* content as a history of operations, and for c = 4 the history of the    *)
(* alpha plane.                                                            *)
(***************************************************************************)
MkQImage(h, w, c, contiguous, base) ==
  [h |-> h, w |-> w, c |-> c,
   planes |-> MkImage(3, IF c = 4 THEN 3 ELSE c, "uint8", contiguous, base),
   alpha |-> <<>>]

NoMaxSize == [none |-> TRUE, v |-> 0]
MaxSizeOf(v) == [none |-> FALSE, v |-> v]

ShapeToken(h, w) == ToString(h) \o "x" \o ToString(w)

\* ia.imresize_single_image(image, (h2, w2), interpolation): a new array of
\* the given height and width; every channel is resampled.
imresize_single_image(image, h2, w2) ==
  [image EXCEPT
     !.h = h2, !.w = w2,
     !.planes = [@ EXCEPT !.hist = Append(@, <<"resize", ShapeToken(h2, w2)>>),
                          !.contiguous = TRUE, !.tiled = FALSE],
     !.alpha = IF image.c = 4
               THEN Append(@, <<"resize", ShapeToken(h2, w2)>>) ELSE @]

Max(a, b) == IF a >= b THEN a ELSE b

\* _ensure_max_size without the comparison with max_size: always resized.
ensure_max_size_always(image, max_size) ==
  IF ~max_size.none
  THEN imresize_single_image(
         image, (image.h * max_size.v) \div Max(image.h, image.w),
         (image.w * max_size.v) \div Max(image.h, image.w))
  ELSE image

\* _ensure_max_size, color.py:1916-1928.  int(side * (max_size / size)) is
\* floor(side * max_size / size) for the sides of this model (below 12, and
\* the sides and limits of ElongatedSides and SizeLimits).
ensure_max_size(image, max_size) ==
  IF ~max_size.none /\ Max(image.h, image.w) > max_size.v
  THEN imresize_single_image(
         image, (image.h * max_size.v) \div Max(image.h, image.w),
         (image.w * max_size.v) \div Max(image.h, image.w))
  ELSE image

\* self._quantize(image, n_colors) on the colour planes: the assertions of
\* the strategy, its copy case, else the planes are quantized.
scaffold_quantize(strategy, image, n_colors) ==
  IF quantize_asserts(strategy, 3, image.planes.dtype, n_colors) # "none"
  THEN [err |-> quantize_asserts(strategy, 3, image.planes.dtype, n_colors),
        image |-> image]
  ELSE IF \/ strategy = "uniform" /\ Clip(n_colors, 2, 256) = 256
          \/ strategy = "kmeans" /\ n_colors >= image.h * image.w
  THEN [err |-> "none", image |-> image]
  ELSE [err |-> "none",
        image |-> [image EXCEPT
                     !.planes.hist =
                       Append(@, <<"quantize",
                                   strategy \o " " \o ToString(n_colors)>>),
                     !.planes.contiguous = TRUE,
                     !.planes.tiled = FALSE]]

\* cs.augment_image / cs_inv.augment_image on the three colour planes
\* (color.py:1875-1892): a ChangeColorspace with alpha = 1, or a Noop when
\* to_colorspace is None.
scaffold_convert_done(image, r) ==
  [err |-> r.err,
   image |-> IF r.err = "none" THEN [image EXCEPT !.planes = r.image]
             ELSE image]

scaffold_convert(image, to_colorspace, from_colorspace) ==
  IF to_colorspace = None \/ from_colorspace = None
  THEN [err |-> "none", image |-> image]
  ELSE scaffold_convert_done(
         image,
         ChangeColorspace_image(image.planes, 100, to_colorspace,
                                from_colorspace))

\* color.py:1866-1867: image[:, :, 0:3] of a 4-channel array is a view.
ColorPlanes(image) ==
  IF image.c = 4 THEN [image EXCEPT !.planes.contiguous = FALSE] ELSE image

\* color.py:1894-1899: the output is resized when its shape differs from
\* the shape of the input.
scaffold_restore(orig, r) ==
  IF r.err = "none" /\ <<r.image.h, r.image.w>> # <<orig.h, orig.w>>
  THEN [err |-> "none",
        image |-> imresize_single_image(r.image, orig.h, orig.w)]
  ELSE r

scaffold_convert_back(q, t, r) ==
  IF r.err # "none" THEN r
  ELSE scaffold_convert(r.image, q.from_colorspace, t)

scaffold_quantize_converted(q, n_colors, r) ==
  IF r.err # "none" THEN r
  ELSE scaffold_quantize(q.strategy, r.image, n_colors)

scaffold_resized(q, orig, image, n_colors, t) ==
  IF image.c = 1
  THEN scaffold_restore(orig, scaffold_quantize(q.strategy, image, n_colors))
  ELSE scaffold_restore(
         orig,
         scaffold_convert_back(
           q, t,
           scaffold_quantize_converted(
             q, n_colors,
             scaffold_convert(ColorPlanes(image), t, q.from_colorspace))))

\* _augment_single_image, color.py:1849-1901; t is the working colorspace
\* sampled for this image (None when the quantizer has no to_colorspace).
augment_single_image(q, image, n_colors, t) ==
  IF image.c \notin {1, 3, 4}
  THEN [err |-> "AssertionError:channels", image |-> image]
  ELSE scaffold_resized(q, image, ensure_max_size(image, q.max_size),
                        n_colors, t)

\* _draw_samples with no clipping.
quantizer_draw_samples_not_clipped(samples) == samples

\* _draw_samples, color.py:1829-1838: np.clip(n_colors, 2, None)
quantizer_draw_samples(samples) ==
  [i \in 1..Len(samples) |-> IF samples[i] < 2 THEN 2 ELSE samples[i]]

\* The loop of _augment_images, color.py:1844-1847, from image i on.
RECURSIVE QuantizeLoop(_, _, _, _, _)
QuantizeLoop(q, imgs, n_colors, ts, i) ==
  IF i > Len(imgs)
  THEN [err |-> "none", images |-> imgs, n_colors |-> n_colors]
  ELSE LET r == augment_single_image(q, imgs[i], n_colors[i], ts[i])
       IN  IF r.err # "none"
           THEN [err |-> r.err, images |-> imgs, n_colors |-> n_colors]
           ELSE QuantizeLoop(q, [imgs EXCEPT ![i] = r.image], n_colors, ts,
                             i + 1)

\* _AbstractColorQuantization._augment_images, color.py:1840-1847
quantizer_augment_images(q, imgs, samples, ts) ==
  QuantizeLoop(q, imgs, quantizer_draw_samples(samples), ts, 1)

(***************************************************************************)
(* SpecQuant: a quantizer, a batch of one or two images, the number of     *)
(* colours and the working colorspace sampled for every image; one call of *)
(* _augment_images.                                                        *)
(***************************************************************************)
Quantizers ==
  [strategy : {"uniform", "kmeans"},
   max_size : {NoMaxSize, MaxSizeOf(1), MaxSizeOf(2)},
   from_colorspace : {CSPACE_RGB}]

QImages ==
  {MkQImage(h, w, c, TRUE, 1) : h \in 1..MaxSide, w \in 1..MaxSide,
                                 c \in {1, 2, 3, 4}}
QPairImages == {MkQImage(1, 1, 3, TRUE, 1), MkQImage(2, MaxSide, 4, TRUE, 2)}

NColorSamples == {1, 2, 7, 256, 257}
WorkingColorspaces == {None, CSPACE_RGB, CSPACE_Lab}

QBatches ==
  {<<a>> : a \in QImages} \cup {<<a, b>> : a \in QPairImages, b \in QPairImages}

QuantizerCalls ==
  UNION {[q : Quantizers, images : {b},
          samples : [1..Len(b) -> NColorSamples],
          ts : [1..Len(b) -> WorkingColorspaces]] : b \in QBatches}

InitQuant ==
  /\ applied = "none"
  /\ fn_in \in QuantizerCalls
  /\ fn_out = NoValue
  /\ IdleConv /\ IdleHue /\ IdleAug

QuantizerAugmentImages ==
  /\ applied = "none"
  /\ applied' = "_augment_images"
  /\ fn_out' = quantizer_augment_images(fn_in.q, fn_in.images, fn_in.samples,
                                        fn_in.ts)
  /\ UNCHANGED <<fn_in, convVars, hueVars, augVars>>

NextQuant == QuantizerAugmentImages

SpecQuant == InitQuant /\ [][NextQuant]_vars

(***************************************************************************)
(* Claims about the scaffold, checked under SpecQuant.                     *)
(***************************************************************************)
Quantized == applied = "_augment_images"
\* The images the loop reached: all of them, or up to the one that failed.
RangeFailure == fn_out.err = "AssertionError:n_colors"

\* C13 as stated: every per-image colour count handed to the strategy lies in
\* [2, 256], samples below 2 become 2, and no sampled value makes the
\* quantization fail its n_colors range check.
C13_ClampedToRange ==
  Quantized =>
    /\ \A i \in 1..Len(fn_in.samples) :
         /\ fn_out.n_colors[i] \in 2..256
         /\ fn_in.samples[i] < 2 => fn_out.n_colors[i] = 2
    /\ ~RangeFailure

\* C13 amended: the colour count handed to the strategy is max(sample, 2):
\* samples below 2 become 2 and never fail the range check, samples above
\* 256 are handed on as they are, and the call fails the n_colors range
\* check of the strategy exactly when an image with a sample above 256 is
\* reached.
C13_ClampedFromBelow ==
  Quantized =>
    /\ \A i \in 1..Len(fn_in.samples) :
         fn_out.n_colors[i] = Max(fn_in.samples[i], 2)
    /\ RangeFailure => \E i \in 1..Len(fn_in.samples) : fn_in.samples[i] > 256
    /\ (/\ \A i \in 1..Len(fn_in.images) : fn_in.images[i].c \in {1, 3, 4}
        /\ \E i \in 1..Len(fn_in.samples) : fn_in.samples[i] > 256)
         => RangeFailure

\* The first image was sampled below 2 and quantized with 2 colours, the
\* second was sampled above 256 and failed the range check.
C13_Witness ==
  /\ Quantized /\ RangeFailure
  /\ Len(fn_in.samples) = 2
  /\ fn_in.samples[1] < 2 /\ fn_in.samples[2] > 256
  /\ fn_out.images[1] # fn_in.images[1]
  /\ fn_out.images[2] = fn_in.images[2]

\* C14: for every 4-channel input image, every max_size and every working
\* colorspace, the alpha channel of the output is bit-identical to the alpha
\* channel of the input: nothing was ever applied to it.
C14_AlphaUntouched ==
  Quantized =>
    \A i \in 1..Len(fn_in.images) :
      fn_in.images[i].c = 4 => fn_out.images[i].alpha = fn_in.images[i].alpha

IsResize(e) == e[1] = "resize"
Resizes(image) == SelectSeq(image.planes.hist, IsResize)
ExceedsMaxSize(image, max_size) ==
  ~max_size.none /\ Max(image.h, image.w) > max_size.v
SameShape(a, b) == a.h = b.h /\ a.w = b.w /\ a.c = b.c

UniformApplied == applied = "uniform" /\ fn_out.err = "none"
KMeansApplied == applied = "kmeans" /\ fn_out.err = "none"

\* clip(round(floor(v/q)*q + q/2), 0, 255) with q = 256/n in exact
\* arithmetic: floor(v/q) = floor(v*n/256) and the bin centre is
\* 128 * (2 * floor(v/q) + 1) / n, never halfway between two integers for
\* n < 256.
FormulaValue(v, n) ==
  Clip((256 * (2 * ((v * n) \div 256) + 1) + n) \div (2 * n), 0, 255)

\* C16: for n_colors in 2..255 quantize_colors_uniform maps every value v to
\* clip(round(floor(v/q)*q + q/2), 0, 255) with q = 256/n_colors; for
\* n_colors = 256 every pixel is unchanged.
C16_UniformFormula ==
  UniformApplied =>
    IF fn_in.n_colors = 256 THEN fn_out.image = fn_in.image
    ELSE \A i \in 1..Len(fn_in.image.px) :
           \A j \in 1..Len(fn_in.image.px[i]) :
             fn_out.image.px[i][j] =
               FormulaValue(fn_in.image.px[i][j], fn_in.n_colors)

DistinctColors(image) == {image.px[i] : i \in 1..Len(image.px)}

\* C17: for every 1-channel or 3-channel image and every n_colors in
\* [2, 256], the output of either strategy holds at most n_colors distinct
\* colours, a colour being the whole channel vector of a pixel.
C17_AtMostNColors ==
  UniformApplied \/ KMeansApplied =>
    Cardinality(DistinctColors(fn_out.image)) <= fn_in.n_colors

DegenerateCall ==
  /\ fn_in.n_colors \in 2..256
  /\ fn_in.n_colors >= fn_in.image.h * fn_in.image.w

\* C18: quantize_colors_kmeans with 2 <= n_colors <= 256 and
\* n_colors >= H*W returns the pixels of the input, runs no clustering and
\* sets neither the seed of the clustering RNG nor draws from the global RNG.
C18_DegenerateKMeans ==
  KMeansApplied /\ DegenerateCall =>
    /\ fn_out.image = fn_in.image
    /\ fn_out.events = <<>>

\* A degenerate call on an image of MaxPixels pixels of more than one colour.
C18_Witness ==
  /\ KMeansApplied /\ DegenerateCall
  /\ fn_in.image.w = MaxPixels
  /\ Cardinality(DistinctColors(fn_in.image)) > 1
  /\ fn_out.image = fn_in.image
  /\ fn_out.events = <<>>

Clustered(events) == \E k \in 1..Len(events) : events[k][1] = "cv2.kmeans"
\* The events immediately before the clustering calls.
ClusteringSeeds(events) ==
  {IF k = 1 THEN <<"nothing", "">> ELSE events[k - 1] :
     k \in {x \in 1..Len(events) : events[x][1] = "cv2.kmeans"}}
\* The same call made by an augmenter whose stream is rs.
SameCallWithStream(rs) ==
  KMeansColorQuantization_quantize(
    rs, fn_in.image, fn_in.n_colors,
    [i \in 1..(fn_in.image.h * fn_in.image.w) |-> 1])

\* C20 as stated: immediately before every clustering call the clustering
\* RNG is seeded, the same stream gives the same seed, and augmenters with
\* different streams seed the clustering differently.
C20_SeededFromStream ==
  KMeansApplied /\ Clustered(fn_out.events) =>
    /\ \A e \in ClusteringSeeds(fn_out.events) : e[1] = "cv2.setRNGSeed"
    /\ ClusteringSeeds(SameCallWithStream(fn_in.random_state).events) =
         ClusteringSeeds(fn_out.events)
    /\ \A rs \in 0..(RngModulus - 1) :
         rs # fn_in.random_state =>
           ClusteringSeeds(SameCallWithStream(rs).events) #
             ClusteringSeeds(fn_out.events)

\* C20 amended: immediately before every clustering call the clustering RNG
\* is seeded with the constant 1, whatever the stream of the calling
\* augmenter; right after the clustering a seed is drawn from the global RNG
\* and the clustering RNG is seeded with it.
C20_SeededWithConstant ==
  KMeansApplied /\ Clustered(fn_out.events) =>
    /\ ClusteringSeeds(fn_out.events) = {<<"cv2.setRNGSeed", "1">>}
    /\ \A rs \in 0..(RngModulus - 1) :
         ClusteringSeeds(SameCallWithStream(rs).events) =
           ClusteringSeeds(fn_out.events)
    /\ \A k \in 1..Len(fn_out.events) :
         fn_out.events[k][1] = "cv2.kmeans" =>
           /\ k + 2 <= Len(fn_out.events)
           /\ fn_out.events[k + 1] = <<"global_rng.generate_seed_", "">>
           /\ fn_out.events[k + 2] = <<"cv2.setRNGSeed", "global">>

\* A clustering of MaxPixels pixels into two colours by an augmenter whose
\* stream is not the first one.
C20_Witness ==
  /\ KMeansApplied /\ Clustered(fn_out.events)
  /\ fn_in.random_state = RngModulus - 1
  /\ fn_in.n_colors = 2
  /\ Cardinality(DistinctColors(fn_out.image)) = 2
  /\ fn_out.image # fn_in.image

(***************************************************************************)
(* SpecBlend: one image, the alpha (in percent) and the target colorspace  *)
(* sampled for it, the from_colorspace of the augmenter; one pass of the   *)
(* loop of ChangeColorspace._augment_images.                               *)
(***************************************************************************)
Alphas == {0, 1, 50, 99, 100}

InitBlend ==
  /\ applied = "none"
  /\ fn_in \in [image : InputImages(1), alpha : Alphas,
               to_colorspace : CSPACE_ALL \cup {"XYZ"},
               from_colorspace : CSPACE_ALL]
  /\ fn_out = NoValue
  /\ IdleConv /\ IdleHue /\ IdleAug

ChangeColorspaceImage ==
  /\ applied = "none"
  /\ applied' = "ChangeColorspace"
  /\ fn_out' = ChangeColorspace_image(fn_in.image, fn_in.alpha,
                                      fn_in.to_colorspace,
                                      fn_in.from_colorspace)
  /\ UNCHANGED <<fn_in, convVars, hueVars, augVars>>

NextBlend == ChangeColorspaceImage

SpecBlend == InitBlend /\ [][NextBlend]_vars

Blended == applied = "ChangeColorspace" /\ fn_out.err = "none"
\* The converted image, computed from the image as it was before the call.
ConvertedOriginal ==
  change_colorspace_(fn_in.image, fn_in.to_colorspace,
                     fn_in.from_colorspace).ret

\* C19: for alpha above eps and a target colorspace other than
\* from_colorspace the result is the alpha blend of the converted image
\* with the image as it was before the call, in place or not; otherwise the
\* image is left unchanged.
C19_BlendsWithOriginal ==
  Blended =>
    IF fn_in.alpha <= 0 \/ fn_in.from_colorspace = fn_in.to_colorspace
    THEN fn_out.image = fn_in.image
    ELSE Pixels(fn_out.image) =
           Pixels(blend_alpha(ConvertedOriginal, fn_in.image, fn_in.alpha))

(***************************************************************************)
(* SpecRng: the two hidden random states around a call of                  *)
(* quantize_colors_kmeans.  The RNG of cv2 has the seed it was last given  *)
(* and a flag telling whether numbers were drawn since; the global RNG of  *)
(* the library has a state, and generate_seed_() draws from it.            *)
(***************************************************************************)
MkRng(seed, used, global) ==
  [cv2 |-> [seed |-> seed, used |-> used], global |-> global, drawn |-> 0]

\* One step of color.py:2161-2166 on the two random states.
rng_step(rng, e) ==
  IF e = <<"cv2.setRNGSeed", "1">>
  THEN [rng EXCEPT !.cv2 = [seed |-> 1, used |-> FALSE]]
  ELSE IF e[1] = "cv2.kmeans"
  THEN [rng EXCEPT !.cv2.used = TRUE]
  ELSE IF e[1] = "global_rng.generate_seed_"
  THEN [rng EXCEPT !.drawn = DeriveSeed(rng.global),
                   !.global = Advance(rng.global)]
  ELSE [rng EXCEPT !.cv2 = [seed |-> rng.drawn, used |-> FALSE]]

RECURSIVE rng_after(_, _, _)
rng_after(rng, events, k) ==
  IF k > Len(events) THEN [rng EXCEPT !.drawn = 0]
  ELSE rng_after(rng_step(rng, events[k]), events, k + 1)

kmeans_with_rng(r, rng) == [result |-> r, rng |-> rng_after(rng, r.events, 1)]

RngArrays ==
  {MkArray(1, MaxPixels, 1, "uint8", px) : px \in [1..MaxPixels -> Palette(1)]}

InitRng ==
  /\ applied = "none"
  /\ fn_in \in [image : RngArrays, n_colors : {2, 256},
               rng : {MkRng(seed, used, global) :
                        seed \in 0..(RngModulus - 1), used \in BOOLEAN,
                        global \in 0..(RngModulus - 1)}]
  /\ fn_out = NoValue
  /\ IdleConv /\ IdleHue /\ IdleAug

CallQuantizeKMeans(labels) ==
  /\ applied = "none"
  /\ applied' = "quantize_colors_kmeans"
  /\ fn_out' = kmeans_with_rng(
                 quantize_colors_kmeans(fn_in.image, fn_in.n_colors, labels),
                 fn_in.rng)
  /\ UNCHANGED <<fn_in, convVars, hueVars, augVars>>

NextRng ==
  \E labels \in Labellings(fn_in.image, fn_in.n_colors) :
    CallQuantizeKMeans(labels)

SpecRng == InitRng /\ [][NextRng]_vars

\* C21: after every call of quantize_colors_kmeans the RNG of the
\* clustering primitive is in its state of before the call and the global
\* RNG was not advanced.
C21_RngRestored ==
  applied = "quantize_colors_kmeans" => fn_out.rng = fn_in.rng

(***************************************************************************)
(* SpecOrder: one WithColorspace augmenter, a parent chain, a batch and    *)
(* one call of augment_images.                                             *)
(***************************************************************************)
OrderNodes ==
  {[kind |-> "WithColorspace", deterministic |-> d, random_state |-> r,
    children |-> c, to_colorspace |-> t, from_colorspace |-> f] :
     d \in BOOLEAN, r \in 0..1, c \in ChildLists,
     t \in {CSPACE_HSV, CSPACE_BGR, CSPACE_Lab, CSPACE_GRAY},
     f \in {CSPACE_RGB, CSPACE_BGR}}

InitOrder ==
  /\ applied = "none"
  /\ fn_in \in [node : OrderNodes, batch : ImageBatches,
               parents : {<<>>, <<"Sequential">>},
               hooks : {"None", "propagate", "block"}]
  /\ fn_out = NoValue
  /\ IdleConv /\ IdleHue /\ IdleAug

AugmentImages ==
  /\ applied = "none"
  /\ applied' = "augment_images"
  /\ fn_out' = augment(fn_in.node, "images", fn_in.batch, fn_in.parents,
                       fn_in.hooks)
  /\ UNCHANGED <<fn_in, convVars, hueVars, augVars>>

NextOrder == AugmentImages

SpecOrder == InitOrder /\ [][NextOrder]_vars

\* The colorspace an image is in: that of the last conversion applied to
\* it, or the one it started in.
RECURSIVE ColorspaceOf(_, _, _)
ColorspaceOf(hist, k, start) ==
  IF k = 0 THEN start
  ELSE IF hist[k][1] = "child" THEN ColorspaceOf(hist, k - 1, start)
  ELSE hist[k][2]

ColorspaceOfImage(image, start) ==
  ColorspaceOf(image.hist, Len(image.hist), start)

Propagated ==
  /\ applied = "augment_images"
  /\ is_propagating(fn_in.hooks)
  /\ fn_out.err = "none"

ConvertedBatch ==
  change_colorspaces_(fn_in.batch, StrArg(fn_in.node.to_colorspace),
                      StrArg(fn_in.node.from_colorspace)).images
ChildrenOutput == children_augment(fn_in.node.children, ConvertedBatch, 1).images

\* C22: on propagation the batch is converted from from_colorspace to
\* to_colorspace, the children are invoked once on the whole converted
\* batch with the parent chain extended by this node, and their output is
\* converted back: the children see images in to_colorspace only and the
\* caller receives images in from_colorspace only.
C22_CompositeOrdering ==
  Propagated =>
    /\ Len(fn_out.child_calls) = 1
    /\ fn_out.child_calls[1].parents = Append(fn_in.parents, "WithColorspace")
    /\ fn_out.child_calls[1].hooks = fn_in.hooks
    /\ fn_out.child_calls[1].images = ConvertedBatch
    /\ \A i \in 1..Len(fn_in.batch) :
         /\ ColorspaceOfImage(fn_out.child_calls[1].images[i],
                              fn_in.node.from_colorspace)
              = fn_in.node.to_colorspace
         /\ ColorspaceOfImage(fn_out.output[i], fn_in.node.from_colorspace)
              = fn_in.node.from_colorspace
    /\ fn_out.output =
         change_colorspaces_(ChildrenOutput,
                             StrArg(fn_in.node.from_colorspace),
                             StrArg(fn_in.node.to_colorspace)).images

\* A batch of two RGB images went through Lab and two children below a
\* parent chain of one augmenter.
C22_Witness ==
  /\ Propagated
  /\ fn_in.node.to_colorspace = CSPACE_Lab
  /\ fn_in.node.from_colorspace = CSPACE_RGB
  /\ Len(fn_in.node.children) = 2 /\ Len(fn_in.batch) = 2
  /\ fn_in.parents = <<"Sequential">>
  /\ fn_out.child_calls[1].parents = <<"Sequential", "WithColorspace">>
  /\ Len(fn_out.output[2].hist) = 4
  /\ fn_out.output[2].hist[1] = <<CSPACE_RGB, CSPACE_Lab>>
  /\ fn_out.output[2].hist[4] = <<CSPACE_Lab, CSPACE_RGB>>

(***************************************************************************)
(* Claims about the sampling of AddToHueAndSaturation (under SpecHue).     *)
(***************************************************************************)
Sampled ==
  /\ phase = "augmented"
  /\ aug_err \notin {"AssertionError:range", "IndexError:samples"}

\* C23: with the combined value parameter, an image whose coin flip selects
\* shared sampling gets its hue and saturation shift from one sampled value
\* (the hue shift being the value projected by 180/255), an image whose
\* coin flip selects per-channel sampling gets its saturation shift from
\* the second sampled value; with only value_hue or only value_saturation
\* the shift of the other channel is 0.
C23_SharedOrPerChannel ==
  Sampled =>
    \A i \in 1..Len(aug_in) :
      /\ smp.hue[i] = ProjectHue(smp.raw_hue[i])
      /\ smp.saturation[i] = smp.raw_saturation[i]
      /\ ~aug.value.none =>
           /\ smp.raw_hue[i] \in Support(aug.value)
           /\ smp.raw_saturation[i] \in Support(aug.value)
           /\ ~smp.per_channel[i] => smp.raw_saturation[i] = smp.raw_hue[i]
      /\ aug.value.none /\ aug.value_saturation.none => smp.saturation[i] = 0
      /\ aug.value.none /\ aug.value_hue.none => smp.hue[i] = 0

\* A batch of two images sampled with value and per_channel = 0.5: the
\* first shares one value, the second has a saturation shift of its own.
C23_Witness ==
  /\ Sampled /\ ~aug.value.none /\ Len(aug_in) = 2
  /\ ~smp.per_channel[1] /\ smp.per_channel[2]
  /\ smp.raw_hue[1] # 0 /\ smp.raw_saturation[1] = smp.raw_hue[1]
  /\ smp.raw_saturation[2] # smp.raw_hue[2]
  /\ smp.hue[1] = ProjectHue(smp.raw_hue[1])

(***************************************************************************)
(* SpecPost: the int16 H and S values the children left for one pixel and  *)
(* the V value of the converted input; the post-processing is applied.     *)
(***************************************************************************)
\* np.int16 holds -32768..32767.
HueAugValues == (-600..600) \cup {-32768, 32767}
SatAugValues == {-32768, -300, -1, 0, 100, 255, 256, 300, 32767}

InitPost ==
  /\ applied = "none"
  /\ fn_in \in [hue_aug : HueAugValues, sat_aug : SatAugValues,
               v : {0, 7, 255}]
  /\ fn_out = NoValue
  /\ IdleConv /\ IdleHue /\ IdleAug

PostProcess ==
  /\ applied = "none"
  /\ applied' = "postprocess"
  /\ fn_out' = postprocess_pixel(fn_in.hue_aug, fn_in.sat_aug, fn_in.v)
  /\ UNCHANGED <<fn_in, convVars, hueVars, augVars>>

NextPost == PostProcess

SpecPost == InitPost /\ [][NextPost]_vars

\* C24: for every int16 value the children leave, the hue written back is
\* (H mod 255) scaled by 180/255 and lies in 0..179, the saturation written
\* back is clip(S, 0, 255), and V is the V of the converted input.
C24_PostProcessing ==
  applied = "postprocess" =>
    /\ fn_out.h = ((fn_in.hue_aug % 255) * 180) \div 255
    /\ fn_out.h \in 0..179
    /\ fn_out.s = (IF fn_in.sat_aug < 0 THEN 0
                   ELSE IF fn_in.sat_aug > 255 THEN 255 ELSE fn_in.sat_aug)
    /\ fn_out.v = fn_in.v

\* A negative hue value and a saturation value above 255.
C24_Witness ==
  /\ applied = "postprocess"
  /\ fn_in.hue_aug = -1 /\ fn_out.h = 179
  /\ fn_in.sat_aug = 300 /\ fn_out.s = 255
  /\ fn_out.v = 7

(***************************************************************************)
(* SpecLut: one of the two tables and one shift; the row                   *)
(* _transform_image_cv2 takes from the table for that shift.               *)
(***************************************************************************)
\* color.py:1391-1393: np.zeros((256*2, 256), dtype=np.uint8)
lut_shape == <<LutRows, 256>>

\* color.py:1326-1330: table[255 + int(shift)], a row of 256 entries.
lut_row(op, shift) ==
  [shape |-> lut_shape,
   idx |-> RowIndex(255 + shift),
   row |-> [v \in 0..255 |->
              generate_lut_table(op, RowIndex(255 + shift), v)]]

InitLut ==
  /\ applied = "none"
  /\ fn_in \in [op : {"hue", "saturation"}, shift : -256..256]
  /\ fn_out = NoValue
  /\ IdleConv /\ IdleHue /\ IdleAug

LookupRow ==
  /\ applied = "none"
  /\ applied' = "lookup"
  /\ fn_out' = lut_row(fn_in.op, fn_in.shift)
  /\ UNCHANGED <<fn_in, convVars, hueVars, augVars>>

NextLut == LookupRow

SpecLut == InitLut /\ [][NextLut]_vars

InRangeShift == fn_in.shift \in -255..255
ShiftedValue(op, shift, v) ==
  IF op = "hue" THEN (v + shift) % 180
  ELSE IF v + shift < 0 THEN 0 ELSE IF v + shift > 255 THEN 255 ELSE v + shift
RowIsFilled ==
  /\ fn_out.idx = 255 + fn_in.shift
  /\ fn_out.idx \in 0..510
  /\ \A v \in 0..255 :
       /\ fn_out.row[v] \in 0..255
       /\ fn_out.row[v] = ShiftedValue(fn_in.op, fn_in.shift, v)

\* C25 as stated: each table has exactly 511 rows of 256 byte entries, and
\* the row used for an in-range shift is row shift + 255, inside the table,
\* holding the output for every input value.
C25_Table511Rows ==
  applied = "lookup" =>
    /\ fn_out.shape = <<511, 256>>
    /\ InRangeShift => RowIsFilled

\* C25 amended: each table has 512 rows of 256 byte entries; rows 0..510
\* are the rows of the shifts -255..255 and the row used for an in-range
\* shift is row shift + 255, holding the output for every input value;
\* row 511 is never filled and holds zeros.
C25_Table512Rows ==
  applied = "lookup" =>
    /\ fn_out.shape = <<512, 256>>
    /\ InRangeShift => RowIsFilled
    /\ fn_out.idx = 511 => \A v \in 0..255 : fn_out.row[v] = 0

\* The row of the largest shift of the saturation table.
C25_Witness ==
  /\ applied = "lookup"
  /\ fn_in.op = "saturation" /\ fn_in.shift = 255
  /\ fn_out.idx = 510
  /\ fn_out.row[0] = 255 /\ fn_out.row[255] = 255

(***************************************************************************)
(* SpecCache: the lookup-table cache of one process.  class_cache is the   *)
(* class attribute AddToHueAndSaturation._LUT_CACHE ("None" or the number  *)
(* of the table stored in it); every instance has its own attribute of the *)
(* same name once it assigned one, and a position in __init__.  builds     *)
(* counts the runs of _generate_lut_table; table k is the k-th one built.  *)
(* __init__ of different threads may interleave between the test of the    *)
(* cache and the assignment.                                               *)
(***************************************************************************)
NoTable == 0

\* color.py:1227: self._LUT_CACHE is None; attribute lookup takes the
\* instance attribute if there is one, else the class attribute.
lut_cache_of(inst, class_cache) ==
  IF inst.cache # NoTable THEN inst.cache ELSE class_cache

\* color.py:1228: self._LUT_CACHE = self._generate_lut_table() sets an
\* attribute of the instance; the class attribute is left as it is.
store_table(process, i) ==
  [process EXCEPT !.builds = @ + 1,
                  !.instances[i].cache = process.builds + 1,
                  !.instances[i].pc = "ready"]

\* color.py:1212-1227, up to the test of the cache.
new_instance(process, cls) ==
  [process EXCEPT
     !.instances =
       Append(@, [cls |-> cls, cache |-> NoTable, augments |-> 0,
                  table_used |-> NoTable,
                  pc |-> IF process.class_cache = NoTable THEN "building"
                         ELSE "ready"])]

\* color.py:1324-1325: an augment call reads self._LUT_CACHE.
use_table(process, i) ==
  [process EXCEPT
     !.instances[i].augments = @ + 1,
     !.instances[i].table_used =
       lut_cache_of(process.instances[i], process.class_cache)]

InitCache ==
  /\ applied = "none"
  /\ fn_in = NoValue
  /\ fn_out = [class_cache |-> NoTable, instances |-> <<>>, builds |-> 0]
  /\ IdleConv /\ IdleHue /\ IdleAug

NewInstance(cls) ==
  /\ Len(fn_out.instances) < MaxInstances
  /\ applied' = "__init__"
  /\ fn_out' = new_instance(fn_out, cls)
  /\ UNCHANGED <<fn_in, convVars, hueVars, augVars>>

StoreTable(i) ==
  /\ fn_out.instances[i].pc = "building"
  /\ applied' = "_generate_lut_table"
  /\ fn_out' = store_table(fn_out, i)
  /\ UNCHANGED <<fn_in, convVars, hueVars, augVars>>

UseTable(i) ==
  /\ fn_out.instances[i].pc = "ready"
  /\ fn_out.instances[i].augments < MaxAugCalls
  /\ applied' = "_augment_images"
  /\ fn_out' = use_table(fn_out, i)
  /\ UNCHANGED <<fn_in, convVars, hueVars, augVars>>

NextCache ==
  \/ \E cls \in AddClasses : NewInstance(cls)
  \/ \E i \in 1..Len(fn_out.instances) : StoreTable(i)
  \/ \E i \in 1..Len(fn_out.instances) : UseTable(i)

SpecCache == InitCache /\ [][NextCache]_vars

\* C26: over any interleaving of constructions and augment calls
\* _generate_lut_table runs at most once, and all instances use the one
\* table cached process-wide.
C26_BuiltOnce ==
  /\ fn_out.builds <= 1
  /\ \A i, j \in 1..Len(fn_out.instances) :
       fn_out.instances[i].table_used = NoTable
         \/ fn_out.instances[j].table_used = NoTable
         \/ fn_out.instances[i].table_used = fn_out.instances[j].table_used

----------------------------------------------------------------------------
\* demo.py:74-102: the detection loop over the files of IMAGE_DIR and the
\* writer of det.txt.  fn_in is the directory listing, fn_out the script's
\* state: its position, the list r, frameIdx, the number of passes of the
\* while loop and the lines written to f.

\* A detection is a row of r['rois'], (y1, x1, y2, x2) in pixels, and its
\* score in thousandths; no score ends in 5, so '%.2f' has no tie to break.
Detections == {<<<<1, 2, 3, 5>>, 904>>, <<<<0, 4, 6, 4>>, 996>>}

\* '%.2f' of an integer coordinate, in hundredths.
fmt_2f_int(n) == n * 100

\* '%.2f' of a score given in thousandths, in hundredths.
fmt_2f_score(s) == (s + 5) \div 10

\* model.detect([image])[0]: one row of rois and one score per detection.
detect(dets) ==
  [rois |-> [i \in 1..Len(dets) |-> dets[i][1]],
   scores |-> [i \in 1..Len(dets) |-> dets[i][2]]]

\* zip(rois, scores) stops at the shorter of the two.
zip(a, b) ==
  [i \in 1..(IF Len(a) <= Len(b) THEN Len(a) ELSE Len(b)) |-> <<a[i], b[i]>>]

\* A line that starts with rowRois[0], rowRois[1].
format_line_rows_first(frameIdx, rowRois, rowScores) ==
  [frame |-> frameIdx,
   x |-> fmt_2f_int(rowRois[1]),
   y |-> fmt_2f_int(rowRois[2]),
   w |-> fmt_2f_int(rowRois[3] - rowRois[1]),
   h |-> fmt_2f_int(rowRois[4] - rowRois[2]),
   score |-> fmt_2f_score(rowScores)]

\* demo.py:97-100, '%d,-1,%.2f,%.2f,%.2f,%.2f,%.2f,-1,-1,-1'.  Python
\* indexes rowRois from 0, the tuples here from 1.
format_line(frameIdx, rowRois, rowScores) ==
  [frame |-> frameIdx,
   x |-> fmt_2f_int(rowRois[2]),
   y |-> fmt_2f_int(rowRois[1]),
   w |-> fmt_2f_int(rowRois[4] - rowRois[2]),
   h |-> fmt_2f_int(rowRois[3] - rowRois[1]),
   score |-> fmt_2f_score(rowScores)]

\* demo.py:95-100, the for loop of one pass of the while loop.
frame_lines(frameIdx, result) ==
  [i \in 1..Len(zip(result.rois, result.scores)) |->
     format_line(frameIdx, zip(result.rois, result.scores)[i][1],
                 zip(result.rois, result.scores)[i][2])]

InitDemo ==
  /\ applied = "none"
  /\ fn_in \in [n_files : 0..MaxFiles]
  /\ fn_out = [pc |-> "detecting", r |-> <<>>, frameIdx |-> 0, passes |-> 0,
               lines |-> <<>>]
  /\ IdleConv /\ IdleHue /\ IdleAug

\* demo.py:77-86, one file.
DetectFile(dets) ==
  /\ fn_out.pc = "detecting"
  /\ Len(fn_out.r) < fn_in.n_files
  /\ applied' = "detect"
  /\ fn_out' = [fn_out EXCEPT !.r = Append(@, detect(dets))]
  /\ UNCHANGED <<fn_in, convVars, hueVars, augVars>>

\* demo.py:91-92.
OpenFile ==
  /\ fn_out.pc = "detecting"
  /\ Len(fn_out.r) = fn_in.n_files
  /\ applied' = "open"
  /\ fn_out' = [fn_out EXCEPT !.pc = "writing", !.frameIdx = 0]
  /\ UNCHANGED <<fn_in, convVars, hueVars, augVars>>

\* demo.py:93-101, one pass of the while loop.
WriteFrame ==
  /\ fn_out.pc = "writing"
  /\ fn_out.frameIdx < Len(fn_out.r)
  /\ applied' = "write"
  /\ fn_out' = [fn_out EXCEPT
       !.lines = @ \o frame_lines(fn_out.frameIdx, fn_out.r[fn_out.frameIdx + 1]),
       !.frameIdx = @ + 1,
       !.passes = @ + 1]
  /\ UNCHANGED <<fn_in, convVars, hueVars, augVars>>

\* demo.py:93, 102: the loop condition fails and f is closed.
CloseFile ==
  /\ fn_out.pc = "writing"
  /\ ~(fn_out.frameIdx < Len(fn_out.r))
  /\ applied' = "close"
  /\ fn_out' = [fn_out EXCEPT !.pc = "closed"]
  /\ UNCHANGED <<fn_in, convVars, hueVars, augVars>>

DetectionLists ==
  UNION {[1..n -> Detections] : n \in 0..MaxDetections}

NextDemo ==
  \/ \E dets \in DetectionLists : DetectFile(dets)
  \/ OpenFile
  \/ WriteFrame
  \/ CloseFile

\* The script runs on its own: whenever a step is possible one is taken.
SpecDemo == InitDemo /\ [][NextDemo]_vars /\ WF_vars(NextDemo)

RECURSIVE LinesBefore(_, _)
\* The number of detections in the first k frames of r.
LinesBefore(r, k) ==
  IF k = 0 THEN 0 ELSE LinesBefore(r, k - 1) + Len(r[k].rois)

\* Frame k (from 0) is written: its j-th detection is line LinesBefore + j.
FrameWritten(r, lines, k) ==
  \A j \in 1..Len(r[k + 1].rois) :
    lines[LinesBefore(r, k) + j] =
      [frame |-> k,
       x |-> 100 * r[k + 1].rois[j][2],
       y |-> 100 * r[k + 1].rois[j][1],
       w |-> 100 * (r[k + 1].rois[j][4] - r[k + 1].rois[j][2]),
       h |-> 100 * (r[k + 1].rois[j][3] - r[k + 1].rois[j][1]),
       score |-> (r[k + 1].scores[j] + 5) \div 10]

SerializedSoFar ==
  /\ fn_out.passes = fn_out.frameIdx
  /\ fn_out.frameIdx <= Len(fn_out.r)
  /\ Len(fn_out.lines) = LinesBefore(fn_out.r, fn_out.frameIdx)
  /\ \A k \in 0..(fn_out.frameIdx - 1) : FrameWritten(fn_out.r, fn_out.lines, k)
  /\ fn_out.pc = "closed" =>
       /\ fn_out.passes = fn_in.n_files
       /\ Len(fn_out.r) = fn_in.n_files

\* C27: after detection on N files the writer loop ends after exactly N
\* passes with frameIdx 0..N-1; the lines are, in frame order, one per
\* (box, score) pair of each frame, tagged with the frame index, a box
\* (y1, x1, y2, x2) written as x1, y1, x2 - x1, y2 - y1; an empty frame
\* writes nothing and no detection is written twice or skipped.
C27_Serialization == [](SerializedSoFar) /\ <>(fn_out.pc = "closed")

\* Two frames, the first without detections, the second with two, all
\* written and the file closed.
C27_Witness ==
  /\ applied = "close"
  /\ fn_out.pc = "closed"
  /\ fn_in.n_files = 2
  /\ Len(fn_out.r[1].rois) = 0
  /\ Len(fn_out.r[2].rois) = 2
  /\ Len(fn_out.lines) = 2
  /\ fn_out.lines[1].frame = 1
  /\ fn_out.lines[1].x # fn_out.lines[1].y

----------------------------------------------------------------------------
\* WithHueAndSaturation on one HSV pixel, for every native hue, with
\* children that leave the planes as they are (amount 0) or add one.
RoundTripSaturations == {0, 1, 100, 127, 128, 254, 255}
ChildAmounts == {0, 1}

InitRoundTrip ==
  /\ applied = "none"
  /\ fn_in \in [px : [h : 0..179, s : RoundTripSaturations, v : {7}],
               add_hue : ChildAmounts, add_sat : ChildAmounts]
  /\ fn_out = NoValue
  /\ IdleConv /\ IdleHue /\ IdleAug

AugmentRoundTrip ==
  /\ applied = "none"
  /\ applied' = "WithHueAndSaturation"
  /\ fn_out' = WithHueAndSaturation_pixel(fn_in.px, fn_in.add_hue,
                                          fn_in.add_sat)
  /\ UNCHANGED <<fn_in, convVars, hueVars, augVars>>

NextRoundTrip == AugmentRoundTrip

SpecRoundTrip == InitRoundTrip /\ [][NextRoundTrip]_vars

ChildrenChangedNothing ==
  /\ applied = "WithHueAndSaturation"
  /\ fn_in.add_hue = 0
  /\ fn_in.add_sat = 0

\* C28: when the children leave the H and S planes unchanged, for every
\* native hue h in 0..179 the hue written back is h or h-1, and the
\* saturation written back is the input saturation.
C28_HueRoundTrip ==
  ChildrenChangedNothing =>
    /\ fn_out.image.h \in {fn_in.px.h, fn_in.px.h - 1}
    /\ fn_out.image.h \in 0..179
    /\ fn_out.image.s = fn_in.px.s

\* Hue 100 comes back as 99 with the saturation 255 kept.
C28_Witness ==
  /\ ChildrenChangedNothing
  /\ fn_in.px.h = 100
  /\ fn_in.px.s = 255
  /\ fn_out.image.h = 99
  /\ fn_out.image.s = 255

----------------------------------------------------------------------------
\* quantize_colors_uniform applied to a one-pixel image and then to its own
\* output, for every value and every n_colors the assertions admit.
OnePixel(v) == MkArray(1, 1, 1, "uint8", <<<<v>>>>)

InitIdem ==
  /\ applied = "none"
  /\ fn_in \in [v : 0..255, n_colors : 2..256]
  /\ fn_out = NoValue
  /\ IdleConv /\ IdleHue /\ IdleAug

\* The result of the first call is passed on as a parameter.
quantize_again(first, n_colors) ==
  [once |-> first, twice |-> quantize_colors_uniform(first.image, n_colors)]

QuantizeTwice ==
  /\ applied = "none"
  /\ applied' = "uniform twice"
  /\ fn_out' = quantize_again(
                 quantize_colors_uniform(OnePixel(fn_in.v), fn_in.n_colors),
                 fn_in.n_colors)
  /\ UNCHANGED <<fn_in, convVars, hueVars, augVars>>

NextIdem == QuantizeTwice

SpecIdem == InitIdem /\ [][NextIdem]_vars

QuantizedTwice ==
  /\ applied = "uniform twice"
  /\ fn_out.once.err = "none"
  /\ fn_out.twice.err = "none"

\* C29: for every n_colors in 2..256 and every value v in 0..255,
\* quantize_colors_uniform applied to its own output gives the same value
\* again, and every output lies in 0..255 without the final clip changing
\* it.
C29_UniformIdempotent ==
  applied = "uniform twice" =>
    /\ QuantizedTwice
    /\ fn_out.twice.image = fn_out.once.image
    /\ fn_out.once.image.px[1][1] \in 0..255
    /\ fn_in.n_colors < 256 =>
         /\ uniform_rounded(fn_in.v, fn_in.n_colors) \in 0..255
         /\ uniform_rounded(fn_in.v, fn_in.n_colors)
              = fn_out.once.image.px[1][1]

\* 64 with 28 colours lands in the bin below its own (59) and stays there.
C29_Witness ==
  /\ QuantizedTwice
  /\ fn_in.v = 64
  /\ fn_in.n_colors = 28
  /\ fn_out.once.image.px[1][1] = 59
  /\ fn_out.twice.image.px[1][1] = 59

----------------------------------------------------------------------------
\* _ensure_max_size on its own, on square and on very elongated images.
ElongatedSides == {1, 2, 3, 100, 128, 129, 1000}
SizeLimits == {NoMaxSize, MaxSizeOf(1), MaxSizeOf(2), MaxSizeOf(128)}

InitMaxSize ==
  /\ applied = "none"
  /\ fn_in \in [image : {MkQImage(h, w, 3, TRUE, 1) :
                           h \in ElongatedSides, w \in ElongatedSides},
               max_size : SizeLimits]
  /\ fn_out = NoValue
  /\ IdleConv /\ IdleHue /\ IdleAug

\* color.py:1855-1856: image = self._ensure_max_size(image, self.max_size,
\* self.interpolation)
EnsureMaxSize ==
  /\ applied = "none"
  /\ applied' = "_ensure_max_size"
  /\ fn_out' = ensure_max_size(fn_in.image, fn_in.max_size)
  /\ UNCHANGED <<fn_in, convVars, hueVars, augVars>>

NextMaxSize == EnsureMaxSize

SpecMaxSize == InitMaxSize /\ [][NextMaxSize]_vars

LongerSideExceeds ==
  /\ ~fn_in.max_size.none
  /\ Max(fn_in.image.h, fn_in.image.w) > fn_in.max_size.v

\* C30: for every image with height and width of at least 1 and every
\* positive max_size, the image returned by _ensure_max_size has height and
\* width both at least 1 and at most max_size when the longer input side
\* exceeds max_size, and is the input itself otherwise.
C30_DownscaledSizeValid ==
  applied = "_ensure_max_size" =>
    IF LongerSideExceeds
    THEN /\ fn_out.h \in 1..fn_in.max_size.v
         /\ fn_out.w \in 1..fn_in.max_size.v
    ELSE fn_out = fn_in.image

====
